---- MODULE Spec2Model ----
(***************************************************************************)
(* Model of the SwarmShield Responder agent                                *)
(* (swarmshield/src/swarmshield/agents/responder.py): the pre-emptive      *)
(* safety gate, the decision engine, the two enforcement endpoints, the    *)
(* action log / blocked-address list and the auto-unblock background      *)
(* thread.                                                                 *)
(*                                                                         *)
(* Confidences are modelled in hundredths (0.40 -> 40).  Timestamps are    *)
(* whole seconds of one UTC clock; _now_iso() renders them all in the same *)
(* fixed-offset ISO-8601 form, so the string order used by the sweep's     *)
(* sort is the numeric order of the seconds.                               *)
(***************************************************************************)
EXTENDS Integers, Sequences, FiniteSets, TLC

\* ------------------------------------------------------------------------
\* Program constants
\* ------------------------------------------------------------------------
AUTO_UNBLOCK_SECONDS == 300

PREEMPTIVE_CONFIDENCE_GATE == 40

CONFIRMED_CONFIDENCE_GATE == 60

PREEMPTIVE_AUTO_EXPIRE_SECONDS == 60

PREEMPTIVE_SAFE_ACTIONS == {"rate_limit", "elevated_monitor"}

\* ------------------------------------------------------------------------
\* Bounds of the model
\* ------------------------------------------------------------------------
MaxTicks == 6

MaxLog == 4

MaxFaults == 2

\* granularity of the clock: half a sleep of the auto-unblock thread
TickSeconds == AUTO_UNBLOCK_SECONDS \div 2

MaxTime == MaxTicks * TickSeconds

\* requests are accepted while the clock leaves room for two sleeps of the
\* auto-unblock thread, so that every action taken can still expire
EnforceDeadline == MaxTime - 2 * AUTO_UNBLOCK_SECONDS

IPs == {"10.0.0.1", "10.0.0.2"}

\* ------------------------------------------------------------------------
\* Input domains
\* ------------------------------------------------------------------------
Confidences == {0, 39, 40, 41, 59, 60, 61, 100}

AlertLevels == {"normal", "elevated", "early_warning", "confirmed", "critical"}

PreemptiveRecommended == {"rate_limit", "elevated_monitor", "block",
                          "redirect_to_honeypot", "quarantine", "monitor"}

VerdictRecommended == {"block", "redirect_to_honeypot", "quarantine",
                       "rate_limit", "monitor", "elevated_monitor"}

AttackTypes == {"DDoS", "DoS", "Bot", "PortScan", "Exfiltration",
                "Infiltration", "Normal", "Unknown"}

VerdictRequired == {"source_ip", "predicted_attack_type", "confidence",
                    "shap_explanation", "recommended_action", "agent_id"}

PreemptiveRequired == {"source_ip", "alert_level", "current_confidence",
                       "predicted_confidence", "recommended_action", "agent_id"}

VARIABLES now, log, logExists, logMode, faults, blocked, sweeper, wake,
          last, resp, cmds, reports, gate, thr, scout, evo, sim

vars == <<now, log, logExists, logMode, faults, blocked, sweeper, wake,
          last, resp, cmds, reports, gate, thr, scout, evo, sim>>

\* the responder's own state
responder == <<now, log, logExists, logMode, faults, blocked, sweeper, wake,
               last, resp, cmds, reports>>

\* the state of the components a responder step does not touch: the safety
\* gate under evaluation, the two racing threads, the scout, the evolver and
\* the propagation simulator
others == <<gate, thr, scout, evo, sim>>

\* a component that has not been started
Idle == [phase |-> "idle"]

\* ------------------------------------------------------------------------
\* Pre-emptive safety gate (pure function)
\* ------------------------------------------------------------------------
\* mutant: the alert-level guard lets "confirmed" through
gate_without_alert_guard(recommended, current_conf, predicted_conf, alert_level) ==
    IF recommended \notin PREEMPTIVE_SAFE_ACTIONS
      THEN [approved |-> FALSE, reason |-> "action_not_preemptive_safe"]
    ELSE IF alert_level \notin {"early_warning", "confirmed"}
      THEN [approved |-> FALSE, reason |-> "alert_level_not_early_warning"]
    ELSE IF predicted_conf < PREEMPTIVE_CONFIDENCE_GATE
      THEN [approved |-> FALSE, reason |-> "predicted_below_gate"]
    ELSE IF current_conf >= CONFIRMED_CONFIDENCE_GATE
      THEN [approved |-> FALSE, reason |-> "current_at_or_above_confirmed"]
    ELSE [approved |-> TRUE, reason |-> "all_gates_passed"]

\* mutant: both confidence comparisons are off by one at the boundary
gate_with_strict_bounds(recommended, current_conf, predicted_conf, alert_level) ==
    IF recommended \notin PREEMPTIVE_SAFE_ACTIONS
      THEN [approved |-> FALSE, reason |-> "action_not_preemptive_safe"]
    ELSE IF alert_level # "early_warning"
      THEN [approved |-> FALSE, reason |-> "alert_level_not_early_warning"]
    ELSE IF predicted_conf <= PREEMPTIVE_CONFIDENCE_GATE
      THEN [approved |-> FALSE, reason |-> "predicted_below_gate"]
    ELSE IF current_conf > CONFIRMED_CONFIDENCE_GATE
      THEN [approved |-> FALSE, reason |-> "current_at_or_above_confirmed"]
    ELSE [approved |-> TRUE, reason |-> "all_gates_passed"]

preemptive_safety_gate(recommended, current_conf, predicted_conf, alert_level) ==
    IF recommended \notin PREEMPTIVE_SAFE_ACTIONS
      THEN [approved |-> FALSE, reason |-> "action_not_preemptive_safe"]
    ELSE IF alert_level # "early_warning"
      THEN [approved |-> FALSE, reason |-> "alert_level_not_early_warning"]
    ELSE IF predicted_conf < PREEMPTIVE_CONFIDENCE_GATE
      THEN [approved |-> FALSE, reason |-> "predicted_below_gate"]
    ELSE IF current_conf >= CONFIRMED_CONFIDENCE_GATE
      THEN [approved |-> FALSE, reason |-> "current_at_or_above_confirmed"]
    ELSE [approved |-> TRUE, reason |-> "all_gates_passed"]

\* ------------------------------------------------------------------------
\* Files and command execution
\* ------------------------------------------------------------------------
\* one line of responder_actions.log; kind "rec" is a record written by
\* log_action, the other kinds are lines that are not such records
Line(kind, ip, action, ts, ok) ==
    [kind |-> kind, ip |-> ip, action |-> action, ts |-> ts, ok |-> ok]

\* the files and the commands run so far by the handler in progress
Files == [log |-> log, logExists |-> logExists, blocked |-> blocked, cmds |-> <<>>]

run_cmd(st, name, ip, ok) ==
    [st EXCEPT !.cmds = Append(@, [cmd |-> name, ip |-> ip, ok |-> ok])]

log_action(st, ip, action, success) ==
    IF logMode = "unwritable"
      THEN st
      ELSE [st EXCEPT !.log = Append(@, Line("rec", ip, action, now, success)),
                      !.logExists = TRUE]

block_ip(st, ip, ok) ==
    LET s1 == [st EXCEPT !.blocked = Append(@, ip)]
        s2 == run_cmd(s1, "block", ip, ok)
    IN  [st |-> log_action(s2, ip, "block", ok), success |-> ok]

redirect_to_honeypot(st, ip, ok) ==
    LET s1 == run_cmd(st, "redirect_to_honeypot", ip, ok)
    IN  [st |-> log_action(s1, ip, "redirect_to_honeypot", ok), success |-> ok]

\* mutant: success when either of the two commands succeeded
quarantine_host_either(st, ip, ok1, ok2) ==
    LET s1 == run_cmd(st, "quarantine_src", ip, ok1)
        s2 == run_cmd(s1, "quarantine_dst", ip, ok2)
    IN  [st |-> log_action(s2, ip, "quarantine", ok1 \/ ok2), success |-> ok1 \/ ok2]

quarantine_host(st, ip, ok1, ok2) ==
    LET s1 == run_cmd(st, "quarantine_src", ip, ok1)
        s2 == run_cmd(s1, "quarantine_dst", ip, ok2)
    IN  [st |-> log_action(s2, ip, "quarantine", ok1 /\ ok2), success |-> ok1 /\ ok2]

\* mutant: the unblock is not written to the action log
unblock_ip_unlogged(st, ip, ok) ==
    LET s1 == [st EXCEPT !.blocked = SelectSeq(@, LAMBDA a : a # ip)]
        s2 == run_cmd(s1, "unblock", ip, ok)
    IN  [st |-> s2, success |-> ok]

unblock_ip(st, ip, ok) ==
    LET s1 == [st EXCEPT !.blocked = SelectSeq(@, LAMBDA a : a # ip)]
        s2 == run_cmd(s1, "unblock", ip, ok)
    IN  [st |-> log_action(s2, ip, "unblock", ok), success |-> ok]

remove_redirect(st, ip, ok) ==
    LET s1 == run_cmd(st, "remove_redirect", ip, ok)
    IN  [st |-> log_action(s1, ip, "remove_redirect", ok), success |-> ok]

rate_limit_ip(st, ip, ok) ==
    LET s1 == run_cmd(st, "rate_limit", ip, ok)
    IN  [st |-> log_action(s1, ip, "rate_limit", ok), success |-> ok]

remove_rate_limit(st, ip, ok) ==
    LET s1 == run_cmd(st, "remove_rate_limit", ip, ok)
    IN  [st |-> log_action(s1, ip, "remove_rate_limit", ok), success |-> ok]

preemptive_monitor(st, ip) ==
    [st |-> log_action(st, ip, "elevated_monitor", TRUE), success |-> TRUE]

\* ------------------------------------------------------------------------
\* Decision engine
\* ------------------------------------------------------------------------
decide_and_act(st, ip, attack_type, recommended, ok1, ok2) ==
    IF recommended = "block" \/ attack_type \in {"DDoS", "DoS", "Bot"}
      THEN LET r == block_ip(st, ip, ok1)
           IN  [st |-> r.st, action |-> "block", success |-> r.success]
    ELSE IF recommended = "redirect_to_honeypot" \/ attack_type = "PortScan"
      THEN LET r == redirect_to_honeypot(st, ip, ok1)
           IN  [st |-> r.st, action |-> "redirect_to_honeypot", success |-> r.success]
    ELSE IF recommended = "quarantine" \/ attack_type \in {"Exfiltration", "Infiltration"}
      THEN LET r == quarantine_host(st, ip, ok1, ok2)
           IN  [st |-> r.st, action |-> "quarantine", success |-> r.success]
    ELSE IF recommended = "rate_limit"
      THEN LET r == rate_limit_ip(st, ip, ok1)
           IN  [st |-> r.st, action |-> "rate_limit", success |-> r.success]
    ELSE [st |-> log_action(st, ip, "monitor", TRUE), action |-> "monitor",
          success |-> TRUE]

\* ------------------------------------------------------------------------
\* HTTP endpoints
\* ------------------------------------------------------------------------
NoResp == [http |-> 0, status |-> "none", action |-> "none", success |-> FALSE,
           reason |-> "none"]

ErrorResp == [http |-> 400, status |-> "error", action |-> "none", success |-> FALSE,
              reason |-> "none"]

Report(ip, action, success) == [ip |-> ip, action |-> action, success |-> success]

\* request bodies: present = {} stands for an absent, unparsable or empty body
VerdictBody(present, ip, attack_type, recommended) ==
    [present |-> present, source_ip |-> ip, predicted_attack_type |-> attack_type,
     recommended_action |-> recommended]

VerdictBodies ==
    {VerdictBody(p, "10.0.0.1", "DDoS", "block") :
        p \in {{}} \cup {VerdictRequired \ {f} : f \in VerdictRequired}}
    \cup {VerdictBody(VerdictRequired, ip, a, r) :
            ip \in IPs, a \in AttackTypes, r \in VerdictRecommended}

PreemptiveBody(present, ip, alert, cur, pred, recommended) ==
    [present |-> present, source_ip |-> ip, alert_level |-> alert,
     current_confidence |-> cur, predicted_confidence |-> pred,
     recommended_action |-> recommended]

PreemptiveBodies ==
    {PreemptiveBody(p, "10.0.0.1", "early_warning", 59, 40, "rate_limit") :
        p \in {{}} \cup {PreemptiveRequired \ {f} : f \in PreemptiveRequired}}
    \cup {PreemptiveBody(PreemptiveRequired, ip, al, c, pr, r) :
            ip \in IPs, al \in {"early_warning", "confirmed", "elevated"},
            c \in {59, 60}, pr \in {39, 40},
            r \in {"rate_limit", "elevated_monitor", "block"}}

\* mutant: the required list forgets agent_id
verdict_endpoint_short_required(data, ok1, ok2) ==
    IF data.present = {}
      THEN [st |-> Files, reports |-> <<>>, resp |-> ErrorResp]
    ELSE IF (VerdictRequired \ {"agent_id"}) \ data.present # {}
      THEN [st |-> Files, reports |-> <<>>, resp |-> ErrorResp]
    ELSE LET d == decide_and_act(Files, data.source_ip, data.predicted_attack_type,
                                 data.recommended_action, ok1, ok2)
         IN  [st |-> d.st,
              reports |-> <<Report(data.source_ip, d.action, d.success)>>,
              resp |-> [http |-> 200, status |-> "ok", action |-> d.action,
                        success |-> d.success, reason |-> "none"]]

verdict_endpoint(data, ok1, ok2) ==
    IF data.present = {}
      THEN [st |-> Files, reports |-> <<>>, resp |-> ErrorResp]
    ELSE IF VerdictRequired \ data.present # {}
      THEN [st |-> Files, reports |-> <<>>, resp |-> ErrorResp]
    ELSE LET d == decide_and_act(Files, data.source_ip, data.predicted_attack_type,
                                 data.recommended_action, ok1, ok2)
         IN  [st |-> d.st,
              reports |-> <<Report(data.source_ip, d.action, d.success)>>,
              resp |-> [http |-> 200, status |-> "ok", action |-> d.action,
                        success |-> d.success, reason |-> "none"]]

\* mutant: the requested action is executed before the gate's answer is looked at
preemptive_action_endpoint_acts_first(data, ok) ==
    IF data.present = {}
      THEN [st |-> Files, reports |-> <<>>, resp |-> ErrorResp]
    ELSE IF PreemptiveRequired \ data.present # {}
      THEN [st |-> Files, reports |-> <<>>, resp |-> ErrorResp]
    ELSE LET g == preemptive_safety_gate(data.recommended_action,
                      data.current_confidence, data.predicted_confidence,
                      data.alert_level)
             r == IF data.recommended_action = "rate_limit"
                    THEN rate_limit_ip(Files, data.source_ip, ok)
                    ELSE preemptive_monitor(Files, data.source_ip)
             action == IF data.recommended_action = "rate_limit"
                         THEN "rate_limit" ELSE "elevated_monitor"
         IN  IF ~g.approved
               THEN [st |-> r.st, reports |-> <<>>,
                     resp |-> [http |-> 200, status |-> "gate_rejected",
                               action |-> "none", success |-> FALSE,
                               reason |-> g.reason]]
               ELSE [st |-> r.st,
                     reports |-> <<Report(data.source_ip, action, r.success)>>,
                     resp |-> [http |-> 200, status |-> "ok", action |-> action,
                               success |-> r.success, reason |-> g.reason]]

preemptive_action_endpoint(data, ok) ==
    IF data.present = {}
      THEN [st |-> Files, reports |-> <<>>, resp |-> ErrorResp]
    ELSE IF PreemptiveRequired \ data.present # {}
      THEN [st |-> Files, reports |-> <<>>, resp |-> ErrorResp]
    ELSE LET g == preemptive_safety_gate(data.recommended_action,
                      data.current_confidence, data.predicted_confidence,
                      data.alert_level)
         IN  IF ~g.approved
               THEN [st |-> Files, reports |-> <<>>,
                     resp |-> [http |-> 200, status |-> "gate_rejected",
                               action |-> "none", success |-> FALSE,
                               reason |-> g.reason]]
               ELSE LET r == IF data.recommended_action = "rate_limit"
                               THEN rate_limit_ip(Files, data.source_ip, ok)
                               ELSE preemptive_monitor(Files, data.source_ip)
                        action == IF data.recommended_action = "rate_limit"
                                    THEN "rate_limit" ELSE "elevated_monitor"
                    IN  [st |-> r.st,
                         reports |-> <<Report(data.source_ip, action, r.success)>>,
                         resp |-> [http |-> 200, status |-> "ok", action |-> action,
                                   success |-> r.success, reason |-> g.reason]]

\* ------------------------------------------------------------------------
\* Auto-unblock background thread: one iteration of its loop
\* ------------------------------------------------------------------------
\* a timestamp string that datetime.fromisoformat rejects ("not-a-date");
\* it sorts after every ISO-8601 string
BadTs == MaxTime + 1

\* mutant: rate limits are not among the states the thread cleans up
ExpirableActionsNoRateLimit == {"block", "redirect_to_honeypot"}

ExpirableActions == {"block", "redirect_to_honeypot", "rate_limit"}

\* keys of ip_history, in insertion order (first appearance in the log)
RECURSIVE ip_order(_, _)
ip_order(lines, seen) ==
    IF lines = <<>> THEN <<>>
    ELSE LET l == Head(lines)
         IN  IF l.kind = "rec" /\ l.ip \notin seen
               THEN <<l.ip>> \o ip_order(Tail(lines), seen \cup {l.ip})
               ELSE ip_order(Tail(lines), seen)

entries_of(lines, ip) == SelectSeq(lines, LAMBDA l : l.kind = "rec" /\ l.ip = ip)

\* sorted(entries, key=timestamp)[-1]: the sort is stable, so among equal
\* timestamps the entry written last comes last
last_entry(entries) ==
    entries[CHOOSE i \in 1..Len(entries) :
              \A j \in 1..Len(entries) :
                 /\ entries[j].ts <= entries[i].ts
                 /\ j > i => entries[j].ts < entries[i].ts]

\* mutant: one TTL for every kind
expiry_of_single_ttl(last_action) == AUTO_UNBLOCK_SECONDS

expiry_of(last_action) ==
    IF last_action = "rate_limit" THEN PREEMPTIVE_AUTO_EXPIRE_SECONDS
                                  ELSE AUTO_UNBLOCK_SECONDS

is_expired(last_entry_, t) ==
    /\ last_entry_.action \in ExpirableActions
    /\ last_entry_.ts # BadTs
    /\ t - last_entry_.ts >= expiry_of(last_entry_.action)

\* the body of the per-address loop
sweep_ip(acc, lines, ip, ok) ==
    LET e == last_entry(entries_of(lines, ip))
    IN  IF ~is_expired(e, now) THEN acc
        ELSE IF e.action = "block"
          THEN [st |-> unblock_ip(acc.st, ip, ok).st,
                reports |-> Append(acc.reports, Report(ip, "auto_unblock", TRUE))]
        ELSE IF e.action = "redirect_to_honeypot"
          THEN [st |-> remove_redirect(acc.st, ip, ok).st,
                reports |-> Append(acc.reports, Report(ip, "auto_remove_redirect", TRUE))]
        ELSE [st |-> remove_rate_limit(acc.st, ip, ok).st,
              reports |-> Append(acc.reports, Report(ip, "auto_remove_rate_limit", TRUE))]

RECURSIVE sweep_ips(_, _, _, _)
sweep_ips(acc, lines, order, okmap) ==
    IF order = <<>> THEN acc
    ELSE sweep_ips(sweep_ip(acc, lines, Head(order), okmap[Head(order)]),
                   lines, Tail(order), okmap)

\* one pass of the while-loop body after the sleep; crashed = an exception
\* that the loop does not catch left the thread
auto_unblock_iteration(okmap) ==
    LET idle == [st |-> Files, reports |-> <<>>, crashed |-> FALSE]
    IN  IF ~logExists THEN idle
        ELSE IF logMode = "unreadable" THEN idle
        ELSE IF \E i \in 1..Len(log) : log[i].kind = "nonobject"
          THEN [idle EXCEPT !.crashed = TRUE]
        ELSE LET r == sweep_ips([st |-> Files, reports |-> <<>>], log,
                                ip_order(log, {}), okmap)
             IN  [st |-> r.st, reports |-> r.reports, crashed |-> FALSE]

\* ------------------------------------------------------------------------
\* State machine
\* ------------------------------------------------------------------------
GateIdle == [phase |-> "idle", recommended |-> "none", current |-> 0, predicted |-> 0,
             alert |-> "none", approved |-> FALSE, reason |-> "none"]

Last(op, wf, rec) == [op |-> op, wf |-> wf, rec |-> rec]

InitSystem ==
    /\ now = 0
    /\ log = <<>>
    /\ logExists = FALSE
    /\ logMode = "ok"
    /\ faults = 0
    /\ blocked = <<>>
    /\ sweeper = "sleeping"
    /\ wake = AUTO_UNBLOCK_SECONDS
    /\ last = Last("init", FALSE, "none")
    /\ resp = NoResp
    /\ cmds = <<>>
    /\ reports = <<>>

OthersIdle == thr = Idle /\ scout = Idle /\ evo = Idle /\ sim = Idle

Init == InitSystem /\ gate = GateIdle /\ OthersIdle

\* room in the bounded log for this record and one reversal per address
HasRoom == Len(log) + Cardinality(IPs) < MaxLog /\ Len(blocked) < MaxLog

\* bodies: the request bodies that may arrive; oks: the outcomes a command may have
VerdictOn(bodies, oks) ==
    /\ now <= EnforceDeadline
    /\ \E data \in bodies, ok1 \in oks, ok2 \in oks :
         /\ data.present = VerdictRequired => HasRoom
         /\ \E r \in {verdict_endpoint(data, ok1, ok2)} :
              /\ log' = r.st.log
              /\ logExists' = r.st.logExists
              /\ blocked' = r.st.blocked
              /\ cmds' = r.st.cmds
              /\ reports' = r.reports
              /\ resp' = r.resp
         /\ last' = Last("verdict", data.present = VerdictRequired,
                             IF data.present = VerdictRequired
                               THEN data.recommended_action ELSE "none")
    /\ UNCHANGED <<now, logMode, faults, sweeper, wake, others>>

PreemptiveOn(bodies, oks) ==
    /\ now <= EnforceDeadline
    /\ \E data \in bodies, ok \in oks :
         /\ data.present = PreemptiveRequired => HasRoom
         /\ \E r \in {preemptive_action_endpoint(data, ok)} :
              /\ log' = r.st.log
              /\ logExists' = r.st.logExists
              /\ blocked' = r.st.blocked
              /\ cmds' = r.st.cmds
              /\ reports' = r.reports
              /\ resp' = r.resp
         /\ last' = Last("preemptive", data.present = PreemptiveRequired,
                             IF data.present = PreemptiveRequired
                               THEN data.recommended_action ELSE "none")
    /\ UNCHANGED <<now, logMode, faults, sweeper, wake, others>>

Verdict == VerdictOn(VerdictBodies, BOOLEAN)

Preemptive == PreemptiveOn(PreemptiveBodies, BOOLEAN)

\* time.sleep(AUTO_UNBLOCK_SECONDS) has returned: run one loop iteration
Sweep ==
    /\ sweeper = "sleeping"
    /\ now >= wake
    /\ \E okmap \in [IPs -> BOOLEAN] :
         \E r \in {auto_unblock_iteration(okmap)} :
             /\ log' = r.st.log
             /\ logExists' = r.st.logExists
             /\ blocked' = r.st.blocked
             /\ cmds' = r.st.cmds
             /\ reports' = r.reports
             /\ sweeper' = IF r.crashed THEN "dead" ELSE "sleeping"
             /\ wake' = IF r.crashed THEN wake ELSE now + AUTO_UNBLOCK_SECONDS
    /\ resp' = NoResp
    /\ last' = Last("sweep", FALSE, "none")
    /\ UNCHANGED <<now, logMode, faults, others>>

\* the clock advances
Tick ==
    /\ now + TickSeconds <= MaxTime
    /\ now' = now + TickSeconds
    /\ resp' = NoResp
    /\ cmds' = <<>>
    /\ reports' = <<>>
    /\ last' = Last("tick", FALSE, "none")
    /\ UNCHANGED <<log, logExists, logMode, faults, blocked, sweeper, wake, others>>

Next == Verdict \/ Preemptive \/ Sweep \/ Tick

Spec == Init /\ [][Next]_vars

\* ------------------------------------------------------------------------
\* The safety gate on its own: every input of the bounded domains
\* ------------------------------------------------------------------------
GateInit ==
    /\ InitSystem
    /\ OthersIdle
    /\ \E r \in PreemptiveRecommended, c \in Confidences, p \in Confidences,
          a \in AlertLevels :
         gate = [phase |-> "in", recommended |-> r, current |-> c, predicted |-> p,
                 alert |-> a, approved |-> FALSE, reason |-> "none"]

GateEval ==
    /\ gate.phase = "in"
    /\ \E g \in {preemptive_safety_gate(gate.recommended, gate.current,
                                        gate.predicted, gate.alert)} :
         gate' = [gate EXCEPT !.phase = "out", !.approved = g.approved,
                              !.reason = g.reason]
    /\ UNCHANGED <<responder, thr, scout, evo, sim>>

GateSpec == GateInit /\ [][GateEval]_vars

\* ------------------------------------------------------------------------
\* Properties
\* ------------------------------------------------------------------------
GateRejectReasons == {"action_not_preemptive_safe", "alert_level_not_early_warning",
                      "predicted_below_gate", "current_at_or_above_confirmed"}

\* C1: a candidate whose alert_level is not "early_warning" is rejected by the
\* safety gate, whatever the requested action and the two confidences are.
C1_NonEarlyWarningRejected ==
    (gate.phase = "out" /\ gate.alert # "early_warning") => ~gate.approved

\* a "confirmed" candidate that passes the other three conditions was evaluated
C1_Witness ==
    /\ gate.phase = "out"
    /\ gate.alert = "confirmed"
    /\ gate.recommended = "rate_limit"
    /\ gate.predicted >= PREEMPTIVE_CONFIDENCE_GATE
    /\ gate.current < CONFIRMED_CONFIDENCE_GATE
    /\ ~gate.approved

\* C2: the gate approves if and only if all four conditions hold (safe action,
\* alert_level early_warning, predicted >= 0.40, current < 0.60); every other
\* candidate is rejected with a reason.
C2_GateIffFourConditions ==
    gate.phase = "out" =>
       /\ gate.approved <=>
            /\ gate.recommended \in {"rate_limit", "elevated_monitor"}
            /\ gate.alert = "early_warning"
            /\ gate.predicted >= 40
            /\ gate.current < 60
       /\ ~gate.approved => gate.reason \in GateRejectReasons

\* a candidate on both boundaries (predicted = 0.40, current = 0.59) was approved
C2_Witness ==
    /\ gate.phase = "out"
    /\ gate.approved
    /\ gate.predicted = 40
    /\ gate.current = 59

\* ---- helpers of the properties: the action log as the claims read it ----
HasRecord(lg, ip) == \E i \in 1..Len(lg) : lg[i].kind = "rec" /\ lg[i].ip = ip

\* the most recent recorded action of an address: its last record in the file
Latest(lg, ip) ==
    lg[CHOOSE i \in 1..Len(lg) :
         /\ lg[i].kind = "rec" /\ lg[i].ip = ip
         /\ \A j \in (i + 1)..Len(lg) : ~(lg[j].kind = "rec" /\ lg[j].ip = ip)]

CmdsFor(cs, ip) == SelectSeq(cs, LAMBDA c : c.ip = ip)

IsPrefix(a, b) == Len(a) <= Len(b) /\ SubSeq(b, 1, Len(a)) = a

NewLines(old, new) == SubSeq(new, Len(old) + 1, Len(new))

EnforcementState == <<log, logExists, blocked>>

\* C3: a gate rejection ends the submission with HTTP 200, status
\* gate_rejected and no action; no command runs, nothing is reported, and the
\* action log and blocked-address list are left as they were.  A well-formed
\* candidate ends either gate_rejected or ok, and ok only when the gate passed.
C3_GateRejectionHasNoEffect ==
    [][ last'.op = "preemptive" =>
          /\ resp'.status = "gate_rejected" =>
               /\ resp'.http = 200
               /\ resp'.action = "none"
               /\ resp'.reason \in GateRejectReasons
               /\ cmds' = <<>>
               /\ reports' = <<>>
               /\ EnforcementState' = EnforcementState
          /\ last'.wf => /\ resp'.status \in {"gate_rejected", "ok"}
                         /\ resp'.status = "ok" <=> resp'.reason = "all_gates_passed"
      ]_vars

\* a candidate was rejected for its alert level while actions were on record
C3_Witness ==
    /\ last.op = "preemptive"
    /\ last.wf
    /\ resp.status = "gate_rejected"
    /\ resp.reason = "alert_level_not_early_warning"
    /\ log # <<>>

\* C4: for a well-formed verdict whose recommended_action is block,
\* redirect_to_honeypot, quarantine, rate_limit or monitor, the action taken is
\* the recommended one, whatever predicted_attack_type is.
C4_RecommendedActionWins ==
    (/\ last.op = "verdict"
     /\ last.wf
     /\ last.rec \in {"block", "redirect_to_honeypot", "quarantine", "rate_limit",
                      "monitor"})
       => resp.action = last.rec

\* C5: a verdict submission without a body or without one of the required
\* fields is answered with an error; no command runs, nothing is reported and
\* the action log and blocked-address list are left as they were.
C5_MalformedVerdictRejected ==
    [][ (last'.op = "verdict" /\ ~last'.wf) =>
          /\ resp'.http = 400
          /\ resp'.status = "error"
          /\ cmds' = <<>>
          /\ reports' = <<>>
          /\ EnforcementState' = EnforcementState
      ]_vars

\* a malformed verdict was rejected while actions were on record
C5_Witness ==
    /\ last.op = "verdict"
    /\ ~last.wf
    /\ resp.http = 400
    /\ log # <<>>

ReversalCmds == {"unblock", "remove_redirect", "remove_rate_limit"}

ReversalsFor(cs, ip) == SelectSeq(cs, LAMBDA c : c.ip = ip /\ c.cmd \in ReversalCmds)

RecordsFor(lg, ip) == SelectSeq(lg, LAMBDA l : l.kind = "rec" /\ l.ip = ip)

\* the inverse of an enforcement kind
InverseOf(action) ==
    IF action = "block" THEN "unblock"
    ELSE IF action = "redirect_to_honeypot" THEN "remove_redirect"
    ELSE "remove_rate_limit"

\* the TTL of an enforcement kind: 60 s for rate_limit, 300 s for block/redirect
TtlOf(action) == IF action = "rate_limit" THEN 60 ELSE 300

\* the latest record of ip is an active enforcement whose age has reached its TTL
Due(lg, ip, t) ==
    /\ HasRecord(lg, ip)
    /\ Latest(lg, ip).action \in {"block", "redirect_to_honeypot", "rate_limit"}
    /\ t - Latest(lg, ip).ts >= TtlOf(Latest(lg, ip).action)

\* C7: a sweep that finds an address whose latest action is a block aged at
\* least the block TTL emits exactly one reversal for it, an unblock, after
\* which the address's latest action is no longer block; a sweep that finds the
\* latest action to be that unblock emits no reversal for the address.
C7_ExpiredBlockUnblockedOnce ==
    [][ last'.op = "sweep" =>
          \A ip \in IPs :
             HasRecord(log, ip) =>
                /\ (Latest(log, ip).action = "block"
                    /\ now - Latest(log, ip).ts >= AUTO_UNBLOCK_SECONDS) =>
                      /\ Len(ReversalsFor(cmds', ip)) = 1
                      /\ ReversalsFor(cmds', ip)[1].cmd = "unblock"
                      /\ Latest(log', ip).action = "unblock"
                      /\ \A i \in 1..Len(blocked') : blocked'[i] # ip
                /\ Latest(log, ip).action = "unblock" =>
                      /\ ReversalsFor(cmds', ip) = <<>>
                      /\ Latest(log', ip) = Latest(log, ip)
      ]_vars

\* a later sweep ran over an address unblocked by an earlier one and emitted nothing
C7_Witness ==
    /\ last.op = "sweep"
    /\ cmds = <<>>
    /\ \E ip \in IPs :
         /\ HasRecord(log, ip)
         /\ Latest(log, ip).action = "unblock"
         /\ Latest(log, ip).ts < now
         /\ \E i \in 1..Len(log) : log[i].ip = ip /\ log[i].action = "block"

\* C8: in one sweep a reversal is issued for an address if and only if its
\* latest record is a block, redirect or rate_limit whose age has reached the
\* TTL of its kind; the reversal is the inverse of that kind, is issued once and
\* is logged as one new record; nothing else is run or logged by the sweep.
C8_SweepRevertsExactlyTheDue ==
    [][ last'.op = "sweep" =>
          /\ IsPrefix(log, log')
          /\ \A ip \in IPs :
               IF Due(log, ip, now)
                 THEN /\ Len(CmdsFor(cmds', ip)) = 1
                      /\ CmdsFor(cmds', ip)[1].cmd = InverseOf(Latest(log, ip).action)
                      /\ Len(RecordsFor(NewLines(log, log'), ip)) = 1
                      /\ Latest(log', ip).action = InverseOf(Latest(log, ip).action)
                      /\ Latest(log', ip).ok = CmdsFor(cmds', ip)[1].ok
                 ELSE /\ CmdsFor(cmds', ip) = <<>>
                      /\ RecordsFor(NewLines(log, log'), ip) = <<>>
      ]_vars

\* one sweep removed an expired rate limit and left a younger block alone
C8_Witness ==
    /\ last.op = "sweep"
    /\ Len(cmds) = 1
    /\ cmds[1].cmd = "remove_rate_limit"
    /\ \E ip \in IPs :
         /\ ip # cmds[1].ip
         /\ HasRecord(log, ip)
         /\ Latest(log, ip).action = "block"
         /\ now - Latest(log, ip).ts < AUTO_UNBLOCK_SECONDS

\* ------------------------------------------------------------------------
\* The same system under the scheduling the process gives: the clock
\* advances, and the auto-unblock thread runs its iteration when its sleep
\* is over
\* ------------------------------------------------------------------------
\* requests of the liveness runs: one well-formed verdict per recommended
\* action and one approved candidate per pre-emptive action; their commands
\* succeed (the thread does not read the success field of a record)
LiveVerdictBodies ==
    {VerdictBody(VerdictRequired, ip, "Normal", r) :
        ip \in IPs,
        r \in {"block", "redirect_to_honeypot", "quarantine", "rate_limit", "monitor"}}

LivePreemptiveBodies ==
    {PreemptiveBody(PreemptiveRequired, ip, "early_warning", 59, 40, r) :
        ip \in IPs, r \in {"rate_limit", "elevated_monitor"}}

LiveVerdict == VerdictOn(LiveVerdictBodies, {TRUE})

LivePreemptive == PreemptiveOn(LivePreemptiveBodies, {TRUE})

LiveNext == LiveVerdict \/ LivePreemptive \/ Sweep \/ Tick

LiveSpec == Init /\ [][LiveNext]_vars /\ WF_vars(Tick) /\ WF_vars(Sweep)

RequestActions == {"block", "redirect_to_honeypot", "quarantine", "rate_limit",
                   "monitor", "elevated_monitor"}

\* line i is the latest record of its address and its action is one of kinds
PendingAt(i, ip, kinds) ==
    /\ i <= Len(log)
    /\ log[i].kind = "rec"
    /\ log[i].ip = ip
    /\ log[i].action \in kinds
    /\ \A j \in (i + 1)..Len(log) : log[j].ip # ip

\* the record of ip that follows line i is the reversal of line i's action,
\* or a further action requested for ip
FollowedAt(i, ip) ==
    \E j \in (i + 1)..Len(log) :
        /\ log[j].ip = ip
        /\ \A k \in (i + 1)..(j - 1) : log[k].ip # ip
        /\ \/ log[j].action \in RequestActions
           \/ /\ log[i].action \in {"block", "redirect_to_honeypot", "rate_limit"}
              /\ log[j].action = InverseOf(log[i].action)

ForeignLines ==
    {Line(k, "", "", 0, FALSE) : k \in {"blank", "garbage", "nonobject"}}
    \cup {Line("rec", ip, "block", BadTs, TRUE) : ip \in IPs}

\* a fault of the action log happens
Fault ==
    /\ faults < MaxFaults
    /\ faults' = faults + 1
    /\ last' = Last("fault", FALSE, "none")
    /\ resp' = NoResp
    /\ cmds' = <<>>
    /\ reports' = <<>>
    /\ UNCHANGED <<now, blocked, sweeper, wake, others>>

CorruptLog ==
    /\ Fault
    /\ Len(log) < MaxLog
    /\ \E l \in ForeignLines : log' = Append(log, l)
    /\ logExists' = TRUE
    /\ UNCHANGED logMode

RemoveLog ==
    /\ Fault
    /\ logExists
    /\ log' = <<>>
    /\ logExists' = FALSE
    /\ UNCHANGED logMode

SetLogMode ==
    /\ Fault
    /\ \E md \in {"ok", "unreadable", "unwritable"} \ {logMode} : logMode' = md
    /\ UNCHANGED <<log, logExists>>

FaultVerdictBodies ==
    {VerdictBody(VerdictRequired, ip, "Normal", r) :
        ip \in IPs, r \in {"block", "rate_limit"}}

FaultVerdict == VerdictOn(FaultVerdictBodies, {TRUE})

FaultNext == FaultVerdict \/ Sweep \/ Tick \/ CorruptLog \/ RemoveLog \/ SetLogMode

FaultSpec == Init /\ [][FaultNext]_vars

\* C10: no failed sweep stops the auto-expiry scheduler: whatever the action
\* log holds and whatever fails, the thread is still in its loop.
C10_SweeperNeverStops == sweeper = "sleeping"

\* ------------------------------------------------------------------------
\* block_ip on a request thread racing unblock_ip on the auto-unblock thread
\* ------------------------------------------------------------------------
\* The module takes no lock: each statement that touches a file is a step
\* of its thread, and the steps of the two threads interleave freely.

\* blocked_ips.txt before the race: address b was blocked earlier
RaceLists(a, b) == {<<b>>, <<b, a>>, <<a, b>>, <<b, b>>}

\* a file opened with mode "w" is written from offset 0: the buffered lines
\* replace as many lines as they are long, what lies behind them stays
\* (all lines of blocked_ips.txt have the same length here)
write_from_start(file, data) == data \o SubSeq(file, Len(data) + 1, Len(file))

RaceInit ==
    /\ now = AUTO_UNBLOCK_SECONDS
    /\ logExists = TRUE
    /\ logMode = "ok"
    /\ faults = 0
    /\ sweeper = "sleeping"
    /\ wake = AUTO_UNBLOCK_SECONDS
    /\ last = Last("init", FALSE, "none")
    /\ resp = NoResp
    /\ cmds = <<>>
    /\ reports = <<>>
    /\ gate = GateIdle
    /\ scout = Idle /\ evo = Idle /\ sim = Idle
    /\ \E a \in IPs, b \in IPs :
         /\ a # b
         /\ log = <<Line("rec", b, "block", 0, TRUE)>>
         /\ blocked \in RaceLists(a, b)
         /\ thr = [phase |-> "racing", a |-> a, b |-> b, pcA |-> "append",
                   pcB |-> "read", lines |-> <<>>, okA |-> FALSE, okB |-> FALSE]

\* what neither thread touches
RaceFrame == UNCHANGED <<now, logExists, logMode, faults, sweeper, wake, last, resp,
                         reports, gate, scout, evo, sim>>

\* block_ip: open(BLOCKED_IPS_FILE, "a"), write, close
BlockAppend ==
    /\ thr.pcA = "append"
    /\ blocked' = Append(blocked, thr.a)
    /\ thr' = [thr EXCEPT !.pcA = "cmd"]
    /\ UNCHANGED <<log, cmds>>
    /\ RaceFrame

\* block_ip: _run_cmd(iptables -A INPUT ... DROP)
BlockCmd ==
    /\ thr.pcA = "cmd"
    /\ \E ok \in BOOLEAN :
         /\ cmds' = run_cmd([Files EXCEPT !.cmds = cmds], "block", thr.a, ok).cmds
         /\ thr' = [thr EXCEPT !.pcA = "log", !.okA = ok]
    /\ UNCHANGED <<log, blocked>>
    /\ RaceFrame

\* block_ip: log_action(ip, "block", ...)
BlockLog ==
    /\ thr.pcA = "log"
    /\ log' = log_action(Files, thr.a, "block", thr.okA).log
    /\ thr' = [thr EXCEPT !.pcA = "done"]
    /\ UNCHANGED <<blocked, cmds>>
    /\ RaceFrame

\* unblock_ip: lines = fh.readlines()
UnblockRead ==
    /\ thr.pcB = "read"
    /\ thr' = [thr EXCEPT !.pcB = "open_w", !.lines = blocked]
    /\ UNCHANGED <<log, blocked, cmds>>
    /\ RaceFrame

\* unblock_ip: open(BLOCKED_IPS_FILE, "w") truncates the file
UnblockTruncate ==
    /\ thr.pcB = "open_w"
    /\ blocked' = <<>>
    /\ thr' = [thr EXCEPT !.pcB = "write"]
    /\ UNCHANGED <<log, cmds>>
    /\ RaceFrame

\* unblock_ip: the kept lines are flushed when the with-block closes the file
UnblockWrite ==
    /\ thr.pcB = "write"
    /\ blocked' = write_from_start(blocked,
                                   SelectSeq(thr.lines, LAMBDA l : l # thr.b))
    /\ thr' = [thr EXCEPT !.pcB = "cmd"]
    /\ UNCHANGED <<log, cmds>>
    /\ RaceFrame

\* unblock_ip: _run_cmd(iptables -D INPUT ... DROP)
UnblockCmd ==
    /\ thr.pcB = "cmd"
    /\ \E ok \in BOOLEAN :
         /\ cmds' = run_cmd([Files EXCEPT !.cmds = cmds], "unblock", thr.b, ok).cmds
         /\ thr' = [thr EXCEPT !.pcB = "log", !.okB = ok]
    /\ UNCHANGED <<log, blocked>>
    /\ RaceFrame

\* unblock_ip: log_action(ip, "unblock", ...)
UnblockLog ==
    /\ thr.pcB = "log"
    /\ log' = log_action(Files, thr.b, "unblock", thr.okB).log
    /\ thr' = [thr EXCEPT !.pcB = "done"]
    /\ UNCHANGED <<blocked, cmds>>
    /\ RaceFrame

RaceNext ==
    \/ BlockAppend \/ BlockCmd \/ BlockLog
    \/ UnblockRead \/ UnblockTruncate \/ UnblockWrite \/ UnblockCmd \/ UnblockLog

RaceSpec == RaceInit /\ [][RaceNext]_vars

InList(list, ip) == \E i \in 1..Len(list) : list[i] = ip

\* C11: whatever the interleaving of a block of address a with an unblock of
\* address b, once both calls have returned a is in the blocked-address list
\* and the action log holds the earlier record followed by one whole record
\* of each call.
C11_ConcurrentBlockKeepsAddress ==
    (thr.phase = "racing" /\ thr.pcA = "done" /\ thr.pcB = "done") =>
        /\ InList(blocked, thr.a)
        /\ Len(log) = 3
        /\ \E i \in 2..3 : log[i] = Line("rec", thr.a, "block", now, thr.okA)
        /\ \E i \in 2..3 : log[i] = Line("rec", thr.b, "unblock", now, thr.okB)

\* ------------------------------------------------------------------------
\* Scout: rolling inference
\* ------------------------------------------------------------------------
\* confidences are in hundredths, as in the responder
CONFIDENCE_THRESHOLD == 60
EARLY_WARNING_THRESHOLD == 40
ROLLING_HORIZON_SECONDS == 60
ROLLING_HISTORY_SIZE == 10
ROLLING_TICK_SECONDS == 5

\* thresholds a caller may pass, the defaults among them
AlertThresholds == {EARLY_WARNING_THRESHOLD - 10, EARLY_WARNING_THRESHOLD,
                    CONFIDENCE_THRESHOLD, CONFIDENCE_THRESHOLD + 10}

\* mutant: the thresholds are exclusive
rolling_alert_level_strict(current_conf, predicted_conf, confirmed_threshold, early_warning_threshold) ==
    IF current_conf > confirmed_threshold THEN "confirmed"
    ELSE IF predicted_conf > confirmed_threshold THEN "early_warning"
    ELSE IF predicted_conf > early_warning_threshold THEN "elevated"
    ELSE "normal"

rolling_alert_level(current_conf, predicted_conf, confirmed_threshold, early_warning_threshold) ==
    IF current_conf >= confirmed_threshold THEN "confirmed"
    ELSE IF predicted_conf >= confirmed_threshold THEN "early_warning"
    ELSE IF predicted_conf >= early_warning_threshold THEN "elevated"
    ELSE "normal"

\* the responder and the components other than the scout, at rest
ScoutAlone == InitSystem /\ gate = GateIdle /\ thr = Idle /\ evo = Idle /\ sim = Idle

AlertInit ==
    /\ ScoutAlone
    /\ \E c \in Confidences, p \in Confidences,
          ct \in AlertThresholds, et \in AlertThresholds :
         scout = [phase |-> "alert_in", current |-> c, predicted |-> p,
                  confirmed_threshold |-> ct, early_warning_threshold |-> et,
                  level |-> "none"]

AlertEval ==
    /\ scout.phase = "alert_in"
    /\ scout' = [scout EXCEPT !.phase = "alert_out",
                              !.level = rolling_alert_level(scout.current,
                                  scout.predicted, scout.confirmed_threshold,
                                  scout.early_warning_threshold)]
    /\ UNCHANGED <<responder, gate, thr, evo, sim>>

AlertSpec == AlertInit /\ [][AlertEval]_vars

Packet(ip, ts) == [src_ip |-> ip, timestamp |-> ts]

\* while buffer and buffer[0]["timestamp"] < cutoff: buffer.popleft()
RECURSIVE drop_stale(_, _)
drop_stale(buffer, cutoff) ==
    IF buffer # <<>> /\ Head(buffer).timestamp < cutoff
      THEN drop_stale(Tail(buffer), cutoff)
      ELSE buffer

\* _get_all_source_ips
source_ips(packets) == {packets[i].src_ip : i \in 1..Len(packets)}

\* mutant: a full history refuses the new snapshot
history_append_keep_oldest(history, snapshot) ==
    IF Len(history) = ROLLING_HISTORY_SIZE THEN history ELSE Append(history, snapshot)

\* deque(maxlen=ROLLING_HISTORY_SIZE).append
history_append(history, snapshot) ==
    IF Len(history) = ROLLING_HISTORY_SIZE
      THEN Append(Tail(history), snapshot)
      ELSE Append(history, snapshot)

RECURSIVE SeqSum(_)
SeqSum(s) == IF s = <<>> THEN 0 ELSE Head(s) + SeqSum(Tail(s))

\* _compute_trend: least-squares line through (tick_time, top_confidence),
\* extrapolated one mean tick gap past the last point.  Computed exactly;
\* times are taken relative to the first point, which changes neither the
\* slope nor the extrapolated value.  predicted is in 1/10000 (the code
\* rounds to four decimals), top_confidence in 1/100.
compute_trend(history) ==
    IF history = <<>> THEN [direction |-> "stable", predicted |-> 0]
    ELSE IF Len(history) = 1
      THEN [direction |-> "stable", predicted |-> 100 * history[1].top_confidence]
    ELSE
      LET n   == Len(history)
          xs  == [i \in 1..n |-> history[i].tick_time - history[1].tick_time]
          ys  == [i \in 1..n |-> history[i].top_confidence]
          Sx  == SeqSum(xs)
          Sy  == SeqSum(ys)
          Sxx == SeqSum([i \in 1..n |-> xs[i] * xs[i]])
          Sxy == SeqSum([i \in 1..n |-> xs[i] * ys[i]])
          D   == n * Sxx - Sx * Sx          \* n * denom
          N   == n * Sxy - Sx * Sy          \* slope = N / D when D # 0
          \* n (n-1) (next_tick - xm)
          M   == n * (n - 1) * xs[n] + n * xs[n] - (n - 1) * Sx
          \* predicted = P / Q in 1/100
          P   == IF D = 0 THEN Sy ELSE Sy * D * (n - 1) + N * M
          Q   == IF D = 0 THEN n ELSE D * n * (n - 1)
          clamped == IF P < 0 THEN 0
                     ELSE IF P > 100 * Q THEN 10000
                     ELSE 100 * (P \div Q) + (200 * (P % Q) + Q) \div (2 * Q)
      IN  [direction |-> IF D # 0 /\ 2 * N > D THEN "rising"
                         ELSE IF D # 0 /\ 2 * N < -D THEN "falling"
                         ELSE "stable",
           predicted |-> clamped]

\* an address with no packet in the buffer has no entry in per_ip
NoAlert == [present |-> FALSE, trend |-> "stable", current_confidence |-> 0,
            predicted_confidence |-> 0, alert_level |-> "none"]

\* rolling_tick(new_packets, horizon_seconds) at time tick_time; conf[ip] is
\* the top_confidence the Monte Carlo estimate returns for ip in this tick
rolling_tick(sc, new_packets, horizon_seconds, tick_time, conf) ==
    LET cutoff   == tick_time - horizon_seconds
        buffered == drop_stale(sc.buffer \o new_packets, cutoff)
        src_ips  == source_ips(buffered)
        hist     == [ip \in IPs |->
                       IF ip \in src_ips
                         THEN history_append(sc.history[ip],
                                [top_confidence |-> conf[ip], tick_time |-> tick_time])
                         ELSE sc.history[ip]]
        per_ip   == [ip \in IPs |->
                       LET trend == compute_trend(hist[ip])
                       IN  IF ip \notin src_ips THEN NoAlert ELSE
                           [present |-> TRUE,
                            trend |-> trend.direction,
                            current_confidence |-> 100 * conf[ip],
                            predicted_confidence |-> trend.predicted,
                            alert_level |->
                                rolling_alert_level(100 * conf[ip], trend.predicted,
                                    100 * CONFIDENCE_THRESHOLD,
                                    100 * EARLY_WARNING_THRESHOLD)]]
    IN  [buffer  |-> buffered,
         history |-> hist,
         result  |-> [tick_time |-> tick_time,
                      buffer_size |-> Len(buffered),
                      per_ip |-> per_ip,
                      early_warnings |->
                          {ip \in src_ips : per_ip[ip].alert_level = "early_warning"},
                      confirmed_threats |->
                          {ip \in src_ips : per_ip[ip].alert_level = "confirmed"}]]

\* --- run_rolling_inference ------------------------------------------------
\* n_ticks of the loop under check
MaxScoutTicks == 2

\* seconds before the capture at which a packet of a batch was seen; the
\* capture window is int(tick_seconds)
PacketAges == {1, ROLLING_TICK_SECONDS - 1}

\* top_confidence values a Monte Carlo estimate returns
ScoutConfs == {30, 55, 70}

\* horizon_seconds the loop is started with (live_demo --horizon)
HorizonChoices == {ROLLING_TICK_SECONDS + 3, 2 * ROLLING_TICK_SECONDS}

\* seconds from one tick to the next: the sleep plus the iteration's own time
TickGaps == {ROLLING_TICK_SECONDS, ROLLING_TICK_SECONDS + 1}

\* the batches a packet source returns at time t: up to two packets of the
\* window, in the order the source lists them (_simulate_packets draws each
\* timestamp at random, so a batch need not be in time order)
Batches(t) ==
    LET P == {Packet(ip, t - a) : ip \in IPs, a \in PacketAges}
    IN  {<<>>} \cup {<<p>> : p \in P} \cup {<<p, q>> : p \in P, q \in P}

NoResult == [tick_time |-> 0, buffer_size |-> 0, per_ip |-> [ip \in IPs |-> NoAlert],
             early_warnings |-> {}, confirmed_threats |-> {}]

\* what the iteration in progress has done so far
NoneDone == [belief |-> FALSE, on_tick |-> FALSE, on_early_warning |-> FALSE]

ScoutStart(n_ticks, horizon) ==
    [phase |-> "loop", pc |-> "capture", clock |-> ROLLING_TICK_SECONDS, tick |-> 0,
     n_ticks |-> n_ticks, horizon |-> horizon, new_packets |-> <<>>,
     buffer |-> <<>>, history |-> [ip \in IPs |-> <<>>], result |-> NoResult,
     iter |-> NoneDone, interrupted |-> FALSE]

ScoutFrame == UNCHANGED <<responder, gate, thr, evo, sim>>

\* while n_ticks is None or tick < n_ticks: new_packets = capture_packets(...)
CaptureOn(batches) ==
    /\ scout.phase = "loop" /\ scout.pc = "capture"
    /\ scout.tick < scout.n_ticks
    /\ \E b \in batches :
         scout' = [scout EXCEPT !.pc = "tick", !.new_packets = b, !.iter = NoneDone]
    /\ ScoutFrame

\* result = self.rolling_tick(new_packets, horizon_seconds)
RollingTickOn(confs) ==
    /\ scout.phase = "loop" /\ scout.pc = "tick"
    /\ \E conf \in confs :
         \E r \in {rolling_tick(scout, scout.new_packets, scout.horizon,
                                scout.clock, conf)} :
            scout' = [scout EXCEPT !.pc = "on_tick", !.new_packets = <<>>,
                                   !.buffer = r.buffer, !.history = r.history,
                                   !.result = r.result, !.iter.belief = TRUE]
    /\ ScoutFrame

\* on_tick(result)
OnTick ==
    /\ scout.phase = "loop" /\ scout.pc = "on_tick"
    /\ scout' = [scout EXCEPT !.iter.on_tick = TRUE,
                   !.pc = IF scout.result.early_warnings # {}
                            THEN "on_early_warning" ELSE "advance"]
    /\ ScoutFrame

\* if ew > 0: on_early_warning(result["early_warnings"], result["per_ip"])
OnEarlyWarning ==
    /\ scout.phase = "loop" /\ scout.pc = "on_early_warning"
    /\ scout' = [scout EXCEPT !.iter.on_early_warning = TRUE, !.pc = "advance"]
    /\ ScoutFrame

\* tick += 1; if tick < n_ticks: time.sleep(tick_seconds)
AdvanceOn(gaps) ==
    /\ scout.phase = "loop" /\ scout.pc = "advance"
    /\ \E g \in gaps :
         scout' = IF scout.tick + 1 < scout.n_ticks
                    THEN [scout EXCEPT !.tick = @ + 1, !.pc = "capture",
                                       !.clock = @ + g]
                    ELSE [scout EXCEPT !.tick = @ + 1, !.pc = "stopped"]
    /\ ScoutFrame

\* KeyboardInterrupt is raised at the statement the loop is executing and
\* caught by the except clause around the while loop
Interrupt ==
    /\ scout.phase = "loop" /\ scout.pc # "stopped"
    /\ scout' = [scout EXCEPT !.pc = "stopped", !.interrupted = TRUE]
    /\ ScoutFrame

ScoutInit ==
    /\ ScoutAlone
    /\ \E h \in HorizonChoices : scout = ScoutStart(MaxScoutTicks, h)

ScoutNext ==
    \/ CaptureOn(Batches(scout.clock))
    \/ RollingTickOn([IPs -> ScoutConfs])
    \/ OnTick
    \/ OnEarlyWarning
    \/ AdvanceOn(TickGaps)
    \/ Interrupt

ScoutSpec == ScoutInit /\ [][ScoutNext]_vars

\* C12: a cancellation takes effect between iterations only: when the loop
\* has stopped, the iteration that was in progress has made all its side
\* effects (belief update, on_tick, on_early_warning when there is a warning).
C12_CancelledIterationCompletes ==
    (scout.phase = "loop" /\ scout.pc = "stopped" /\ scout.iter.belief) =>
        /\ scout.iter.on_tick
        /\ (scout.result.early_warnings # {} => scout.iter.on_early_warning)

\* C14: after every evaluation the buffer holds no observation older than
\* the evaluation time minus the horizon.
C14_NoStaleObservationAfterTick ==
    (scout.phase = "loop" /\ scout.iter.belief) =>
        \A i \in 1..Len(scout.buffer) :
            scout.buffer[i].timestamp >= scout.result.tick_time - scout.horizon

\* --- the loop run long enough to fill a belief history ----------------------
HistoryTicks == ROLLING_HISTORY_SIZE + 1

\* every batch has a packet of the first address, some also of the second
HistoryBatches(t) ==
    {<<Packet("10.0.0.1", t - 1)>>,
     <<Packet("10.0.0.1", t - 1), Packet("10.0.0.2", t - 1)>>}

HistoryConfs == {c \in [IPs -> ScoutConfs] : c["10.0.0.1"] = 30 /\ c["10.0.0.2"] # 70}

HistoryInit ==
    /\ ScoutAlone
    /\ scout = ScoutStart(HistoryTicks, 2 * ROLLING_TICK_SECONDS)

HistoryNext ==
    \/ CaptureOn(HistoryBatches(scout.clock))
    \/ RollingTickOn(HistoryConfs)
    \/ OnTick
    \/ OnEarlyWarning
    \/ AdvanceOn({ROLLING_TICK_SECONDS})

HistorySpec == HistoryInit /\ [][HistoryNext]_vars

\* the last k elements of s
LastK(s, k) == IF Len(s) <= k THEN s ELSE SubSeq(s, Len(s) - k + 1, Len(s))

\* C15: a tick appends the estimate of every source it evaluates to that
\* source's history and keeps the 10 most recent (a full history loses
\* exactly its oldest entry); a source it does not evaluate keeps its
\* history; tick_time never decreases along a history.
C15_HistoryKeepsMostRecent ==
    [][(scout.phase = "loop" /\ scout.pc = "tick" /\ scout'.pc = "on_tick") =>
        \A ip \in IPs :
            LET old == scout.history[ip]
                new == scout'.history[ip]
                res == scout'.result
                est == [top_confidence |-> res.per_ip[ip].current_confidence \div 100,
                        tick_time |-> res.tick_time]
            IN  /\ res.per_ip[ip].present => new = LastK(Append(old, est), 10)
                /\ ~res.per_ip[ip].present => new = old
                /\ Len(new) <= 10
                /\ \A i \in 1..(Len(new) - 1) : new[i].tick_time <= new[i + 1].tick_time
    ]_vars

\* a full history has taken one more estimate and lost its oldest
C15_Witness ==
    /\ scout.phase = "loop"
    /\ scout.pc = "on_tick"
    /\ scout.tick = ROLLING_HISTORY_SIZE
    /\ Len(scout.history["10.0.0.1"]) = ROLLING_HISTORY_SIZE
    /\ scout.history["10.0.0.1"][1].tick_time = 2 * ROLLING_TICK_SECONDS
    /\ scout.history["10.0.0.1"][ROLLING_HISTORY_SIZE].tick_time = scout.clock
    /\ Len(scout.history["10.0.0.2"]) \in 1..(ROLLING_HISTORY_SIZE - 1)

\* ------------------------------------------------------------------------
\* Mahoraga (evolver): outcome records and fitness
\* ------------------------------------------------------------------------
\* records in mahoraga_outcomes.jsonl
MaxOutcomes == 3

\* the epsilon of the fitness denominator, 1e-9, in units of 1e-9
FITNESS_EPSILON_NANO == 1

\* action_taken values the responder reports
OutcomeActions == {"block", "redirect_to_honeypot", "quarantine", "rate_limit",
                   "elevated_monitor", "monitor"}

\* an outcome record; has_stats: the stats dict is not empty.  The other
\* fields of the record are copies of the arguments.
Outcome(action_taken, has_stats, was_threat) ==
    [action_taken |-> action_taken, has_stats |-> has_stats, was_threat |-> was_threat]

\* _SYNTHETIC_SCENARIOS: eight threats and four normal hosts, all with stats
SyntheticScenarios ==
    [i \in 1..12 |-> Outcome("synthetic", TRUE, i <= 8)]

\* mutant: a rate limit counts as a threat as well
record_outcome_rate_limit_is_threat(outcomes, action_taken, has_stats) ==
    Append(outcomes, Outcome(action_taken, has_stats,
        action_taken \in {"block", "redirect_to_honeypot", "quarantine", "rate_limit"}))

\* Mahoraga.record_outcome: append one record to the outcomes file
record_outcome(outcomes, action_taken, has_stats) ==
    Append(outcomes, Outcome(action_taken, has_stats,
        action_taken \in {"block", "redirect_to_honeypot", "quarantine"}))

\* mutant: a true negative is counted as a false positive
RECURSIVE confusion_counts_tn_as_fp(_, _)
confusion_counts_tn_as_fp(outcomes, detected) ==
    IF outcomes = <<>> THEN [tp |-> 0, fn |-> 0, tn |-> 0, fp |-> 0]
    ELSE
      LET rest == confusion_counts_tn_as_fp(Tail(outcomes), Tail(detected))
          o    == Head(outcomes)
          d    == Head(detected)
      IN  IF ~o.has_stats THEN rest
          ELSE IF o.was_threat /\ d THEN [rest EXCEPT !.tp = @ + 1]
          ELSE IF o.was_threat /\ ~d THEN [rest EXCEPT !.fn = @ + 1]
          ELSE [rest EXCEPT !.fp = @ + 1]

\* _evaluate_genome, the loop: detected[i] is the decision the Monte Carlo
\* estimate under the genome's thresholds gives for outcome i
RECURSIVE confusion_counts(_, _)
confusion_counts(outcomes, detected) ==
    IF outcomes = <<>> THEN [tp |-> 0, fn |-> 0, tn |-> 0, fp |-> 0]
    ELSE
      LET rest == confusion_counts(Tail(outcomes), Tail(detected))
          o    == Head(outcomes)
          d    == Head(detected)
      IN  IF ~o.has_stats THEN rest
          ELSE IF o.was_threat /\ d THEN [rest EXCEPT !.tp = @ + 1]
          ELSE IF o.was_threat /\ ~d THEN [rest EXCEPT !.fn = @ + 1]
          ELSE IF ~o.was_threat /\ ~d THEN [rest EXCEPT !.tn = @ + 1]
          ELSE [rest EXCEPT !.fp = @ + 1]

\* mutant: false positives weigh as much as false negatives
fitness_of_unweighted(c) ==
    [num |-> c.tp + c.tn,
     den |-> [whole |-> c.tp + c.tn + c.fp + c.fn, nano |-> FITNESS_EPSILON_NANO]]

\* _evaluate_genome, the return: the quotient num / den kept exact, den being
\* whole + nano * 1e-9
fitness_of(c) ==
    [num |-> c.tp + c.tn,
     den |-> [whole |-> c.tp + c.tn + 2 * c.fp + c.fn, nano |-> FITNESS_EPSILON_NANO]]

\* Mahoraga.evaluate_genome(genome): the recorded outcomes, or the synthetic
\* scenarios when there are none
evaluate_genome(outcomes, detected) ==
    LET used   == IF outcomes = <<>> THEN SyntheticScenarios ELSE outcomes
        counts == confusion_counts(used, detected)
    IN  [used |-> used, detected |-> detected, fitness |-> fitness_of(counts)]

NotEvaluated == [used |-> <<>>, detected |-> <<>>,
                 fitness |-> [num |-> 0, den |-> [whole |-> 0, nano |-> 0]]]

EvoFrame == UNCHANGED <<responder, gate, thr, scout, sim>>

EvoInit ==
    /\ InitSystem /\ gate = GateIdle /\ thr = Idle /\ scout = Idle /\ sim = Idle
    /\ evo = [phase |-> "outcomes", outcomes |-> <<>>, eval |-> NotEvaluated]

RecordOutcome ==
    /\ evo.phase = "outcomes"
    /\ Len(evo.outcomes) < MaxOutcomes
    /\ \E a \in OutcomeActions, s \in BOOLEAN :
         evo' = [evo EXCEPT !.outcomes = record_outcome(@, a, s),
                            !.eval = NotEvaluated]
    /\ EvoFrame

EvaluateGenome ==
    /\ evo.phase = "outcomes"
    /\ evo.eval = NotEvaluated
    /\ LET used == IF evo.outcomes = <<>> THEN SyntheticScenarios ELSE evo.outcomes
       IN  \E detected \in [1..Len(used) -> BOOLEAN] :
             /\ \A i \in 1..Len(used) : ~used[i].has_stats => ~detected[i]
             /\ evo' = [evo EXCEPT !.eval = evaluate_genome(evo.outcomes, detected)]
    /\ EvoFrame

EvoNext == RecordOutcome \/ EvaluateGenome

EvoSpec == EvoInit /\ [][EvoNext]_vars

\* C16 (as claimed): every outcome record has was_threat = true exactly when
\* its action_taken is anything other than monitor.
C16_ThreatIffNotMonitor ==
    evo.phase = "outcomes" =>
        \A i \in 1..Len(evo.outcomes) :
            evo.outcomes[i].was_threat <=> evo.outcomes[i].action_taken # "monitor"

\* C16 (amended): every outcome record has was_threat = true exactly when its
\* action_taken is block, redirect_to_honeypot or quarantine.
C16_ThreatIffConfirmedAction ==
    evo.phase = "outcomes" =>
        \A i \in 1..Len(evo.outcomes) :
            evo.outcomes[i].was_threat <=>
                evo.outcomes[i].action_taken \in {"block", "redirect_to_honeypot",
                                                  "quarantine"}

\* a rate limit and a block have both been recorded
C16_Witness ==
    /\ evo.phase = "outcomes"
    /\ \E i, j \in 1..Len(evo.outcomes) :
         /\ evo.outcomes[i].action_taken = "rate_limit" /\ ~evo.outcomes[i].was_threat
         /\ evo.outcomes[j].action_taken = "block" /\ evo.outcomes[j].was_threat

\* the evaluation in the state: the outcomes that carry stats, and among
\* them the four counts, counted from the record of the evaluation
Scored == {i \in 1..Len(evo.eval.used) : evo.eval.used[i].has_stats}

CountWhere(threat, det) ==
    Cardinality({i \in Scored : evo.eval.used[i].was_threat = threat
                                /\ evo.eval.detected[i] = det})

Evaluated == evo.phase = "outcomes" /\ evo.eval # NotEvaluated

\* every decision equals the inferred ground truth
PerfectClassifier ==
    \A i \in 1..Len(evo.eval.used) :
        evo.eval.used[i].has_stats =>
            (evo.eval.detected[i] <=> evo.eval.used[i].was_threat)

FitnessLess(f, g) ==
    LET lw == f.num * g.den.whole
        ln == f.num * g.den.nano
        rw == g.num * f.den.whole
        rn == g.num * f.den.nano
    IN  lw < rw \/ (lw = rw /\ ln < rn)

\* C19: fitness is (TP+TN)/(TP+TN+2*FP+FN+eps) and lies in [0,1]; with
\* TP+TN > 0 and all errors false positives it is strictly lower than the
\* fitness of the same TP, TN with as many false negatives instead.
C19_FitnessFormulaAndAsymmetry ==
    Evaluated =>
        LET tp == CountWhere(TRUE, TRUE)
            fn == CountWhere(TRUE, FALSE)
            tn == CountWhere(FALSE, FALSE)
            fp == CountWhere(FALSE, TRUE)
            f  == evo.eval.fitness
        IN  /\ f.num = tp + tn
            /\ f.den = [whole |-> tp + tn + 2 * fp + fn, nano |-> 1]
            /\ 0 <= f.num /\ f.num <= f.den.whole
            /\ (tp + tn > 0 /\ fp > 0 /\ fn = 0) =>
                   FitnessLess(f, fitness_of([tp |-> tp, tn |-> tn, fp |-> 0, fn |-> fp]))

\* two false positives, no false negative, something right
C19_Witness ==
    /\ Evaluated
    /\ evo.outcomes # <<>>
    /\ CountWhere(FALSE, TRUE) = 2
    /\ CountWhere(TRUE, FALSE) = 0
    /\ CountWhere(TRUE, TRUE) + CountWhere(FALSE, FALSE) > 0

\* ------------------------------------------------------------------------
\* Mahoraga.evolve: the genetic algorithm (DEAP eaSimple)
\* ------------------------------------------------------------------------
\* pop_size and n_generations of the Mahoraga under check
PopSize == 2
MaxGenerations == 2

\* genes 1-3 and 5 in their own unit, gene 4 (entropy) and gene 6
\* (confidence gate) in hundredths
GENE_BOUNDS == << [lo |-> 50, hi |-> 2000], [lo |-> 20, hi |-> 1000],
                  [lo |-> 2, hi |-> 100], [lo |-> 100, hi |-> 600],
                  [lo |-> 10000, hi |-> 2000000], [lo |-> 30, hi |-> 90] >>

DEFAULT_GENOME == <<500, 300, 20, 350, 500000, 60>>

MUT_SIGMA == <<80, 40, 4, 25, 40000, 4>>

Genes == 1..Len(GENE_BOUNDS)

\* random.uniform(lo, hi) for every gene: the draws taken here are the two
\* ends of each range
RandomGenomes == {[i \in Genes |-> GENE_BOUNDS[i].lo], [i \in Genes |-> GENE_BOUNDS[i].hi]}

\* fitness values an evaluation returns, in hundredths
FitnessValues == {50, 100}

\* twice the gamma cxBlend(alpha=0.5) draws for a pair: gamma = -1/2
\* (extrapolation) or 1/2; 0 stands for a pair that is not mated
CxChoices == {0, -1, 1}

\* mutGaussian: the gene that gets noise and the noise in sigmas; 0 sigmas
\* stands for an individual that is not mutated
MutChoices == {[gene |-> 1, sigmas |-> 0], [gene |-> 1, sigmas |-> -1],
               [gene |-> 6, sigmas |-> 1]}

\* _clamp_genome
clamp_genome(genome) ==
    [i \in Genes |->
        IF genome[i] < GENE_BOUNDS[i].lo THEN GENE_BOUNDS[i].lo
        ELSE IF genome[i] > GENE_BOUNDS[i].hi THEN GENE_BOUNDS[i].hi
        ELSE genome[i]]

\* an individual: its genes and its fitness, -1 when the fitness is invalid
Individual(genes, fitness) == [genes |-> genes, fitness |-> fitness]

\* deap cxBlend on one gene of the pair (x, y), gamma2 = 2 * gamma
blend(x, y, gamma2) == ((2 - gamma2) * x + gamma2 * y) \div 2

\* toolbox.mate = cxBlend(alpha=0.5); the children lose their fitness
mate(a, b, gamma2) ==
    IF gamma2 = 0 THEN <<a, b>>
    ELSE << Individual([i \in Genes |-> blend(a.genes[i], b.genes[i], gamma2)], -1),
            Individual([i \in Genes |-> blend(b.genes[i], a.genes[i], gamma2)], -1) >>

\* toolbox.mutate = mutGaussian(mu=0, sigma=MUT_SIGMA, indpb=INDPB); the
\* mutant loses its fitness
mutate(a, m) ==
    IF m.sigmas = 0 THEN a
    ELSE Individual([a.genes EXCEPT ![m.gene] = @ + m.sigmas * MUT_SIGMA[m.gene]], -1)

\* HallOfFame(1).update: the first individual when empty, afterwards an
\* individual of strictly higher fitness
RECURSIVE hof_update(_, _)
hof_update(hof, inds) ==
    IF inds = <<>> THEN hof
    ELSE hof_update(IF hof = <<>> \/ Head(inds).fitness > hof[1].fitness
                      THEN <<Head(inds)>> ELSE hof,
                    Tail(inds))

\* algorithms.varAnd, crossover: pairs (1,2), (3,4), ...
mated(offspring, cx) ==
    [i \in 1..Len(offspring) |->
        LET p == (i + 1) \div 2
        IN  IF 2 * p > Len(offspring) THEN offspring[i]
            ELSE mate(offspring[2 * p - 1], offspring[2 * p], cx[p])[2 - (2 * p - i)]]

NoStrategy == [saved |-> FALSE, best_genome |-> <<>>, best_fitness |-> 0,
               generations_run |-> 0]

GaFrame == UNCHANGED <<responder, gate, thr, scout, sim>>

GaInit ==
    /\ InitSystem /\ gate = GateIdle /\ thr = Idle /\ scout = Idle /\ sim = Idle
    /\ \E deap \in BOOLEAN :
         evo = [phase |-> "evolve", pc |-> "create", deap |-> deap, gen |-> 0,
                population |-> <<>>, offspring |-> <<>>, hof |-> <<>>,
                result |-> NoStrategy, best_file |-> NoStrategy]

\* evolve without DEAP: _default_result, nothing is saved
EvolveDefault ==
    /\ evo.phase = "evolve" /\ evo.pc = "create" /\ ~evo.deap
    /\ evo' = [evo EXCEPT !.pc = "done",
                 !.result = [saved |-> FALSE, best_genome |-> DEFAULT_GENOME,
                             best_fitness |-> 0, generations_run |-> 0]]
    /\ GaFrame

\* create_population(seed_defaults=True), evaluation of the population and
\* the first hall-of-fame update of eaSimple
CreatePopulation ==
    /\ evo.phase = "evolve" /\ evo.pc = "create" /\ evo.deap
    /\ \E genes \in [2..PopSize -> RandomGenomes], fit \in [1..PopSize -> FitnessValues] :
         LET pop == [i \in 1..PopSize |->
                       Individual(IF i = 1 THEN DEFAULT_GENOME ELSE genes[i], fit[i])]
         IN  evo' = [evo EXCEPT !.pc = IF MaxGenerations > 0 THEN "select" ELSE "finish",
                                !.population = pop,
                                !.hof = hof_update(<<>>, pop)]
    /\ GaFrame

\* offspring = toolbox.select(population, len(population)), cloned: each
\* tournament may be won by any individual
Select ==
    /\ evo.phase = "evolve" /\ evo.pc = "select"
    /\ \E pick \in [1..PopSize -> 1..PopSize] :
         evo' = [evo EXCEPT !.pc = "mate",
                            !.offspring = [i \in 1..PopSize |-> evo.population[pick[i]]]]
    /\ GaFrame

\* varAnd: crossover of the pairs
Mate ==
    /\ evo.phase = "evolve" /\ evo.pc = "mate"
    /\ \E cx \in [1..(PopSize \div 2) -> CxChoices] :
         evo' = [evo EXCEPT !.pc = "mutate", !.offspring = mated(evo.offspring, cx)]
    /\ GaFrame

\* varAnd: mutation of each individual
Mutate ==
    /\ evo.phase = "evolve" /\ evo.pc = "mutate"
    /\ \E mu \in [1..PopSize -> MutChoices] :
         evo' = [evo EXCEPT !.pc = "evaluate",
                   !.offspring = [i \in 1..PopSize |-> mutate(evo.offspring[i], mu[i])]]
    /\ GaFrame

\* eaSimple: evaluate the individuals with an invalid fitness, update the
\* hall of fame, replace the population
EvaluateOffspring ==
    /\ evo.phase = "evolve" /\ evo.pc = "evaluate"
    /\ \E fit \in [1..PopSize -> FitnessValues] :
         LET off == [i \in 1..PopSize |->
                       IF evo.offspring[i].fitness = -1
                         THEN Individual(evo.offspring[i].genes, fit[i])
                         ELSE evo.offspring[i]]
         IN  evo' = [evo EXCEPT !.pc = IF evo.gen + 1 < MaxGenerations
                                         THEN "select" ELSE "finish",
                                !.gen = @ + 1,
                                !.population = off,
                                !.offspring = <<>>,
                                !.hof = hof_update(evo.hof, off)]
    /\ GaFrame

\* best = list(hof[0]); _clamp_genome(best); result; _save_best(result)
Finish ==
    /\ evo.phase = "evolve" /\ evo.pc = "finish"
    /\ LET result == [saved |-> TRUE, best_genome |-> clamp_genome(evo.hof[1].genes),
                      best_fitness |-> evo.hof[1].fitness,
                      generations_run |-> MaxGenerations]
       IN  evo' = [evo EXCEPT !.pc = "done", !.result = result, !.best_file = result]
    /\ GaFrame

GaNext ==
    \/ EvolveDefault \/ CreatePopulation \/ Select \/ Mate \/ Mutate
    \/ EvaluateOffspring \/ Finish

GaSpec == GaInit /\ [][GaNext]_vars

InBounds(genome) ==
    \A i \in 1..6 :
        /\ genome[i] >= <<50, 20, 2, 100, 10000, 30>>[i]
        /\ genome[i] <= <<2000, 1000, 100, 600, 2000000, 90>>[i]

\* C17: during an evolution run every gene of every individual is within its
\* bound, after initialisation and after every crossover and mutation, and
\* the best genome returned and saved is within bounds.
C17_GenesStayInBounds ==
    evo.phase = "evolve" =>
        /\ \A i \in 1..Len(evo.population) : InBounds(evo.population[i].genes)
        /\ \A i \in 1..Len(evo.offspring) : InBounds(evo.offspring[i].genes)
        /\ evo.pc = "done" => InBounds(evo.result.best_genome)
        /\ evo.best_file.saved => InBounds(evo.best_file.best_genome)

\* ------------------------------------------------------------------------
\* analyzer._run_propagation_simulation
\* ------------------------------------------------------------------------
MaxNodes == 2
MaxEdges == 2
MaxTrials == 2

\* addresses a graph handed to simulate_attack may name
SimAddrs == {"10.0.0.1", "10.0.0.2", "10.0.0.9"}

Edge(src, dst) == [src |-> src, dst |-> dst]

NodeLists == UNION {[1..n -> SimAddrs] : n \in 0..MaxNodes}

EdgeLists == UNION {[1..n -> {Edge(s, d) : s, d \in SimAddrs}] : n \in 0..MaxEdges}

\* adj: both directions of every edge
adj(edges, node) ==
    {edges[i].dst : i \in {j \in 1..Len(edges) : edges[j].src = node}}
        \cup {edges[i].src : i \in {j \in 1..Len(edges) : edges[j].dst = node}}

TrialResult(entry, visited, steps) ==
    [entry_node |-> entry, nodes_reached |-> Cardinality(visited), path_length |-> steps]

SimFrame == UNCHANGED <<responder, gate, thr, scout, evo>>

SimInit ==
    /\ InitSystem /\ gate = GateIdle /\ thr = Idle /\ scout = Idle /\ evo = Idle
    /\ \E nodes \in NodeLists, edges \in EdgeLists :
         sim = [phase |-> "simulate", pc |-> "start", nodes |-> nodes, edges |-> edges,
                entry |-> "", visited |-> {}, frontier |-> {}, steps |-> 0,
                results |-> <<>>]

\* if not nodes: return []
ReturnEmpty ==
    /\ sim.phase = "simulate" /\ sim.pc = "start" /\ sim.nodes = <<>>
    /\ sim' = [sim EXCEPT !.pc = "done"]
    /\ SimFrame

\* for trial in range(n_trials): entry = pick_entry(); visited, frontier, steps
PickEntry ==
    /\ sim.phase = "simulate" /\ sim.pc = "start" /\ sim.nodes # <<>>
    /\ Len(sim.results) < MaxTrials
    /\ \E i \in 1..Len(sim.nodes) :
         sim' = [sim EXCEPT !.pc = "while", !.entry = sim.nodes[i],
                            !.visited = {sim.nodes[i]}, !.frontier = {sim.nodes[i]},
                            !.steps = 0]
    /\ SimFrame

\* one pass of `while frontier`: every unvisited neighbour of the frontier
\* is reached or not (rng.random() < prop_prob), then steps += 1 and the
\* circuit breaker
Propagate ==
    /\ sim.phase = "simulate" /\ sim.pc = "while" /\ sim.frontier # {}
    /\ \E next_frontier \in
            SUBSET ((UNION {adj(sim.edges, node) : node \in sim.frontier}) \ sim.visited) :
         sim' = [sim EXCEPT !.visited = @ \cup next_frontier,
                            !.frontier = next_frontier,
                            !.steps = @ + 1,
                            !.pc = IF sim.steps + 1 > Len(sim.nodes) THEN "append"
                                   ELSE "while"]
    /\ SimFrame

\* results.append(...) when the loop has ended; after the last trial the
\* list is returned
AppendResult ==
    /\ sim.phase = "simulate"
    /\ \/ sim.pc = "while" /\ sim.frontier = {}
       \/ sim.pc = "append"
    /\ sim' = [sim EXCEPT
                 !.results = Append(@, TrialResult(sim.entry, sim.visited, sim.steps)),
                 !.pc = IF Len(sim.results) + 1 < MaxTrials THEN "start" ELSE "done"]
    /\ SimFrame

SimNext == ReturnEmpty \/ PickEntry \/ Propagate \/ AppendResult

SimSpec == SimInit /\ [][SimNext]_vars

\* C20: for every node list and edge list, and whatever the random choices,
\* the step count a trial records (path_length) is at most the number of
\* nodes (every trial ends: no pass of the loop is taken after the breaker).
C20_PathLengthAtMostNodeCount ==
    sim.phase = "simulate" =>
        \A i \in 1..Len(sim.results) : sim.results[i].path_length <= Len(sim.nodes)

\* ------------------------------------------------------------------------
\* analyzer._aggregate_risk
\* ------------------------------------------------------------------------
\* in hundredths
RISK_HIGH == 70
RISK_MEDIUM == 40

\* _aggregate_risk(nodes, sim_results): confs are the nodes' confidences in
\* hundredths, reached the nodes_reached of the trials; risk_score and the
\* spreads are in 1/10000 (the code rounds them to four decimals)
aggregate_risk(confs, reached) ==
    IF confs = <<>>
      THEN [risk_level |-> "none", risk_score |-> 0, avg_spread |-> 0]
    ELSE
      LET total_nodes == Len(confs)
          trials   == IF reached = <<>> THEN 1 ELSE Len(reached)
          \* avg_spread = spread / (trials * total_nodes)
          spread   == SeqSum(reached)
          max_conf == CHOOSE c \in {confs[i] : i \in 1..Len(confs)} :
                         \A i \in 1..Len(confs) : confs[i] <= c
          den      == trials * total_nodes
          raw      == (2 * (60 * max_conf * den + 4000 * spread) + den) \div (2 * den)
          risk_score == IF raw > 10000 THEN 10000 ELSE raw
      IN  [risk_level |-> IF risk_score >= 100 * RISK_HIGH THEN "high"
                          ELSE IF risk_score >= 100 * RISK_MEDIUM THEN "medium"
                          ELSE IF risk_score > 0 THEN "low"
                          ELSE "none",
           risk_score |-> risk_score,
           avg_spread |-> (2 * 10000 * spread + den) \div (2 * den)]

\* assess_risk is handed the nodes of a graph and the trials simulated on it
RiskInit ==
    /\ InitSystem /\ gate = GateIdle /\ thr = Idle /\ scout = Idle /\ evo = Idle
    /\ \E confs \in UNION {[1..n -> {0, 50, 90}] : n \in 0..MaxNodes},
          reached \in UNION {[1..n -> 1..MaxNodes] : n \in 0..MaxTrials} :
         sim = [phase |-> "assess", confs |-> confs, reached |-> reached,
                assessment |-> aggregate_risk(<<>>, <<>>)]

\* AnalyzerAgent.assess_risk
AssessRisk ==
    /\ sim.phase = "assess"
    /\ sim' = [sim EXCEPT !.phase = "assessed",
                          !.assessment = aggregate_risk(sim.confs, sim.reached)]
    /\ UNCHANGED <<responder, gate, thr, scout, evo>>

RiskSpec == RiskInit /\ [][AssessRisk]_vars

MaxRuns == 2

\* genomes an evolution run may end with in hof[0]: within bounds or not
EvolvedGenomes ==
    {DEFAULT_GENOME} \cup RandomGenomes
        \cup {mutate(Individual(g, 0), m).genes : g \in RandomGenomes, m \in MutChoices}

\* mutant: the confidence gate is handed over with the thresholds
evolve_result_all_genes(genome, fitness) ==
    LET best == clamp_genome(genome)
    IN  [saved |-> TRUE, best_genome |-> best, best_thresholds |-> best,
         best_fitness |-> fitness, generations_run |-> MaxGenerations]

\* the result dict of evolve: best is the clamped copy of hof[0];
\* best_thresholds = _genome_to_thresholds(best), the genes but the last
evolve_result(genome, fitness) ==
    LET best == clamp_genome(genome)
    IN  [saved |-> TRUE, best_genome |-> best,
         best_thresholds |-> SubSeq(best, 1, Len(best) - 1),
         best_fitness |-> fitness, generations_run |-> MaxGenerations]

\* get_best_strategy: None when the file is missing or json.load fails on
\* it (an empty file is not a JSON document)
get_best_strategy(file_state, best_file) ==
    IF file_state = "complete" THEN best_file
    ELSE [saved |-> FALSE, best_genome |-> <<>>, best_thresholds |-> <<>>,
          best_fitness |-> 0, generations_run |-> 0]

\* _monte_carlo_estimate: th = {**_DEFAULT_THRESHOLDS, **(thresholds or {})}
estimate_thresholds(thresholds) ==
    IF thresholds = <<>> THEN SubSeq(DEFAULT_GENOME, 1, 5) ELSE thresholds

\* a new Mahoraga with no best-genome file, and a new ScoutAgent
PersistInit ==
    /\ InitSystem /\ gate = GateIdle /\ thr = Idle /\ sim = Idle
    /\ scout = [phase |-> "agent", thresholds |-> <<>>]
    /\ evo = [phase |-> "persist", pc |-> "idle", file_state |-> "absent",
              best_file |-> get_best_strategy("absent", <<>>),
              pending |-> get_best_strategy("absent", <<>>),
              saves |-> 0, runs |-> 0,
              applied |-> "none", had_saved |-> FALSE,
              strategy |-> get_best_strategy("absent", <<>>)]

\* evolve, run to its end by one caller: _save_best writes the whole file,
\* unless open() fails (OSError, logged) and the file stays as it was
Evolve ==
    /\ evo.phase = "persist" /\ evo.pc = "idle" /\ evo.runs < MaxRuns
    /\ \E genome \in EvolvedGenomes, fitness \in FitnessValues, ok \in BOOLEAN :
         evo' = IF ok
                  THEN [evo EXCEPT !.runs = @ + 1, !.saves = @ + 1,
                                   !.file_state = "complete",
                                   !.best_file = evolve_result(genome, fitness)]
                  ELSE [evo EXCEPT !.runs = @ + 1]
    /\ UNCHANGED <<responder, gate, thr, scout, sim>>

\* _save_best: open(best_genome_file, "w") truncates the file
SaveOpen ==
    /\ evo.phase = "persist" /\ evo.pc = "idle" /\ evo.runs < MaxRuns
    /\ \E genome \in EvolvedGenomes, fitness \in FitnessValues :
         evo' = [evo EXCEPT !.pc = "writing", !.runs = @ + 1,
                            !.file_state = "empty",
                            !.pending = evolve_result(genome, fitness)]
    /\ UNCHANGED <<responder, gate, thr, scout, sim>>

\* _save_best: json.dump into the buffer, flushed when the with-block
\* closes the file
SaveClose ==
    /\ evo.phase = "persist" /\ evo.pc = "writing"
    /\ evo' = [evo EXCEPT !.pc = "idle", !.saves = @ + 1,
                          !.file_state = "complete", !.best_file = evo.pending]
    /\ UNCHANGED <<responder, gate, thr, scout, sim>>

\* apply_to_agents(scout_agent), on the caller's thread
ApplyToAgents ==
    /\ evo.phase = "persist"
    /\ LET strategy == get_best_strategy(evo.file_state, evo.best_file)
       IN  /\ evo' = [evo EXCEPT !.strategy = strategy,
                                 !.had_saved = evo.saves > 0,
                                 !.applied = IF strategy.saved THEN "true" ELSE "false"]
           /\ scout' = IF strategy.saved
                         THEN [scout EXCEPT !.thresholds = strategy.best_thresholds]
                         ELSE scout
    /\ UNCHANGED <<responder, gate, thr, sim>>

PersistNext == Evolve \/ ApplyToAgents

PersistSpec == PersistInit /\ [][PersistNext]_vars

SaveRaceNext == SaveOpen \/ SaveClose \/ ApplyToAgents

SaveRaceSpec == PersistInit /\ [][SaveRaceNext]_vars

\* C22: a reader that runs concurrently with a save obtains the complete
\* previous result or the complete new one: once a result has been saved,
\* what get_best_strategy hands the reader is a result, never nothing.
C22_ReaderSeesCompleteResult ==
    (evo.phase = "persist" /\ evo.applied # "none" /\ evo.had_saved) =>
        /\ evo.strategy.saved
        /\ evo.applied = "true"

\* C25: apply_to_agents returns False and leaves the estimator's thresholds
\* unchanged when no best strategy has been saved; after an evolve run has
\* saved a result it returns True and sets the thresholds to exactly the
\* best_thresholds of the most recently saved result, which the next
\* estimate then uses.
C25_ApplySetsSavedThresholds ==
    [][(evo.phase = "persist" /\ evo'.runs = evo.runs) =>
          IF evo.saves = 0
            THEN /\ evo'.applied = "false"
                 /\ scout'.thresholds = scout.thresholds
            ELSE /\ evo'.applied = "true"
                 /\ scout'.thresholds = SubSeq(evo.best_file.best_genome, 1, 5)
                 /\ estimate_thresholds(scout'.thresholds)
                        = SubSeq(evo.best_file.best_genome, 1, 5)
    ]_vars

\* a second result was saved and applied over the thresholds of the first
C25_Witness ==
    /\ evo.phase = "persist"
    /\ evo.saves = 2
    /\ evo.applied = "true"
    /\ scout.thresholds = evo.best_file.best_thresholds
    /\ scout.thresholds # SubSeq(DEFAULT_GENOME, 1, 5)

\* ------------------------------------------------------------------------
\* The /verdict endpoint with the optional LLM validation
\* ------------------------------------------------------------------------
\* _responder_llm: not configured, configured but the call fails (complete
\* returns None), configured and answering
LlmClients == {"unavailable", "fails", "answers"}

\* _llm_validate_action(data, action, _responder_llm): "none" for None,
\* "advice" for the dict the model returned, "raise" when
\* float(verdict.get("confidence")) raises (a confidence that is null or
\* not a number passes the required-fields check)
llm_validate_action(confidence_is_number, llm) ==
    IF llm = "unavailable" THEN "none"
    ELSE IF ~confidence_is_number THEN "raise"
    ELSE IF llm = "fails" THEN "none"
    ELSE "advice"

\* verdict_endpoint as a whole: the decision, the report, then the
\* validation; an exception of the view is answered with HTTP 500
VerdictLlm ==
    /\ thr = Idle
    /\ \E data \in VerdictBodies, confidence_is_number \in BOOLEAN, llm \in LlmClients,
          ok1 \in BOOLEAN, ok2 \in BOOLEAN :
         LET r == verdict_endpoint(data, ok1, ok2)
             v == IF r.resp.status = "ok"
                    THEN llm_validate_action(confidence_is_number, llm) ELSE "none"
         IN  /\ log' = r.st.log
             /\ logExists' = r.st.logExists
             /\ blocked' = r.st.blocked
             /\ cmds' = r.st.cmds
             /\ reports' = r.reports
             /\ resp' = IF v = "raise"
                          THEN [NoResp EXCEPT !.http = 500, !.status = "error"]
                          ELSE r.resp
             /\ last' = Last("verdict", data.present = VerdictRequired,
                             IF data.present = VerdictRequired
                               THEN data.recommended_action ELSE "none")
             /\ thr' = [phase |-> "answered", data |-> data, ok1 |-> ok1, ok2 |-> ok2,
                        llm |-> llm, llm_validation |-> (v = "advice")]
    /\ UNCHANGED <<now, logMode, faults, sweeper, wake, gate, scout, evo, sim>>

LlmSpec == Init /\ [][VerdictLlm]_vars

\* C23: for the same verdict, the commands run, the action-log records, the
\* report and the answer (action, success flag) are those of the endpoint
\* without enrichment, whether the enrichment is absent, fails or answers;
\* enrichment only adds the advisory field.
C23_EnrichmentDoesNotChangeOutcome ==
    [][thr'.phase = "answered" =>
          LET base == verdict_endpoint(thr'.data, thr'.ok1, thr'.ok2)
          IN  /\ log' = base.st.log
              /\ blocked' = base.st.blocked
              /\ cmds' = base.st.cmds
              /\ reports' = base.reports
              /\ resp' = base.resp
              /\ thr'.llm_validation => thr'.llm = "answers"
    ]_vars

\* ------------------------------------------------------------------------
\* LivePacketCapture feeding the rolling inference loop
\* ------------------------------------------------------------------------
\* max_buffer of the LivePacketCapture under check
MaxBuffer == 2

\* _sniff_loop._process: self._buf.append(converted) on deque(maxlen=max_buffer)
buf_append(buf, packet) ==
    IF Len(buf) = MaxBuffer THEN Append(Tail(buf), packet) ELSE Append(buf, packet)

\* LivePacketCapture.drain: the packets of the last window_seconds
drain(buf, t, window_seconds) == SelectSeq(buf, LAMBDA p : p.timestamp >= t - window_seconds)

\* live_demo: cap = LivePacketCapture(...); ScoutAgent(packet_source=cap.drain)
SnifferInit ==
    /\ InitSystem /\ gate = GateIdle /\ evo = Idle /\ sim = Idle
    /\ thr = [phase |-> "sniffing", buf |-> <<>>]
    /\ scout = ScoutStart(MaxScoutTicks, 2 * ROLLING_TICK_SECONDS)

\* the sniffer thread receives a packet
Sniff ==
    /\ thr.phase = "sniffing"
    /\ scout.pc # "stopped"
    /\ \E ip \in IPs : thr' = [thr EXCEPT !.buf = buf_append(@, Packet(ip, scout.clock))]
    /\ UNCHANGED <<responder, gate, scout, evo, sim>>

\* capture_packets(window_seconds=int(tick_seconds)) with packet_source = drain
DrainCapture ==
    /\ thr.phase = "sniffing"
    /\ scout.phase = "loop" /\ scout.pc = "capture"
    /\ scout.tick < scout.n_ticks
    /\ scout' = [scout EXCEPT !.pc = "tick", !.iter = NoneDone,
                   !.new_packets = drain(thr.buf, scout.clock, ROLLING_TICK_SECONDS)]
    /\ thr' = [thr EXCEPT !.buf = <<>>]
    /\ UNCHANGED <<responder, gate, evo, sim>>

SnifferNext ==
    \/ Sniff
    \/ DrainCapture
    \/ RollingTickOn(HistoryConfs)
    \/ OnTick
    \/ OnEarlyWarning
    \/ AdvanceOn({ROLLING_TICK_SECONDS})

SnifferSpec == SnifferInit /\ [][SnifferNext]_vars

\* C24: after any sequence of producer appends and ticks, neither the
\* capture buffer nor the rolling buffer of the scout holds more than the
\* configured maximum number of observations.
C24_BuffersBounded ==
    thr.phase = "sniffing" =>
        /\ Len(thr.buf) <= MaxBuffer
        /\ Len(scout.buffer) <= MaxBuffer

\* ------------------------------------------------------------------------
\* The blocked-address list: block_ip / unblock_ip and the list helpers of
\* tools/response_tool.py, run one at a time
\* ------------------------------------------------------------------------
\* load_blocked_ips: the set of the non-empty stripped lines
load_blocked_ips(list) == {list[i] : i \in 1..Len(list)}

\* mutant: the address is appended without looking at the file
save_blocked_ip_no_check(list, ip) == [list |-> Append(list, ip), ret |-> TRUE]

save_blocked_ip(list, ip) ==
    IF ip \in load_blocked_ips(list)
      THEN [list |-> list, ret |-> FALSE]
      ELSE [list |-> Append(list, ip), ret |-> TRUE]

\* the rewrite is `for entry in sorted(existing)`; the addresses of the
\* model in their string order
remove_blocked_ip(list, ip) ==
    IF ip \notin load_blocked_ips(list)
      THEN [list |-> list, ret |-> FALSE]
      ELSE [list |-> SelectSeq(<<"10.0.0.1", "10.0.0.2">>,
                               LAMBDA a : a \in load_blocked_ips(list) \ {ip}),
            ret |-> TRUE]

\* thr.active: the addresses blocked (or saved) and not unblocked (or
\* removed) since
ListInit ==
    /\ InitSystem /\ gate = GateIdle /\ scout = Idle /\ evo = Idle /\ sim = Idle
    /\ thr = [phase |-> "list", active |-> {}]

\* block_ip(ip) or unblock_ip(ip), called directly
BlockOrUnblock ==
    /\ thr.phase = "list"
    /\ Len(log) < MaxLog /\ Len(blocked) < MaxLog
    /\ \E ip \in IPs, op \in {"block", "unblock"}, ok \in BOOLEAN :
         LET r == IF op = "block" THEN block_ip(Files, ip, ok)
                                  ELSE unblock_ip(Files, ip, ok)
         IN  /\ log' = r.st.log
             /\ logExists' = r.st.logExists
             /\ blocked' = r.st.blocked
             /\ cmds' = r.st.cmds
             /\ last' = Last(op, r.success, ip)
             /\ thr' = [thr EXCEPT !.active = IF op = "block" THEN @ \cup {ip}
                                               ELSE @ \ {ip}]
    /\ UNCHANGED <<now, logMode, faults, sweeper, wake, resp, reports, gate, scout,
                   evo, sim>>

\* save_blocked_ip(ip, path) or remove_blocked_ip(ip, path)
SaveOrRemove ==
    /\ thr.phase = "list"
    /\ Len(blocked) < MaxLog
    /\ \E ip \in IPs, op \in {"save", "remove"} :
         LET r == IF op = "save" THEN save_blocked_ip(blocked, ip)
                                 ELSE remove_blocked_ip(blocked, ip)
         IN  /\ blocked' = r.list
             /\ last' = Last(op, r.ret, ip)
             /\ thr' = [thr EXCEPT !.active = IF op = "save" THEN @ \cup {ip}
                                               ELSE @ \ {ip}]
    /\ cmds' = <<>>
    /\ UNCHANGED <<now, log, logExists, logMode, faults, sweeper, wake, resp, reports,
                   gate, scout, evo, sim>>

ListNext == BlockOrUnblock \/ SaveOrRemove

ListSpec == ListInit /\ [][ListNext]_vars

\* C26: after every operation the list holds exactly the addresses blocked
\* and not unblocked since; block appends the address; unblock removes every
\* occurrence of it and keeps every other entry; saving an address already
\* present adds nothing and returns False; removing an absent address
\* changes nothing and returns False.
C26_ListHoldsTheBlocked ==
    [][thr'.phase = "list" =>
          LET ip == last'.rec
              others_kept == \A a \in IPs \ {ip} : InList(blocked', a) <=> InList(blocked, a)
          IN  /\ \A a \in IPs : InList(blocked', a) <=> a \in thr'.active
              /\ last'.op = "block" => blocked' = Append(blocked, ip)
              /\ last'.op = "unblock" =>
                    blocked' = SelectSeq(blocked, LAMBDA a : a # ip)
              /\ last'.op = "save" =>
                    /\ others_kept /\ InList(blocked', ip)
                    /\ InList(blocked, ip) => (blocked' = blocked /\ ~last'.wf)
                    /\ ~InList(blocked, ip) => last'.wf
              /\ last'.op = "remove" =>
                    /\ others_kept /\ ~InList(blocked', ip)
                    /\ ~InList(blocked, ip) => (blocked' = blocked /\ ~last'.wf)
                    /\ InList(blocked, ip) => last'.wf
    ]_vars

\* an address blocked twice was unblocked while the other address stayed
C26_Witness ==
    /\ thr.phase = "list"
    /\ last.op = "unblock"
    /\ Len(SelectSeq(log, LAMBDA l : l.ip = last.rec /\ l.action = "block")) = 2
    /\ blocked # <<>>
    /\ ~InList(blocked, last.rec)

\* ------------------------------------------------------------------------
\* Analyzer: pre_assess_risk
\* ------------------------------------------------------------------------
\* _RATE_LIMIT_PRED_THRESHOLD = 0.50, in 1/10000 as predicted_confidence
RATE_LIMIT_PRED_THRESHOLD == 5000

RECURSIVE pre_assess_loop(_, _)
pre_assess_loop(early_warning_ips, per_ip) ==
    IF early_warning_ips = <<>> THEN <<>>
    ELSE
      LET ip      == Head(early_warning_ips)
          ip_data == per_ip[ip]
          rest    == pre_assess_loop(Tail(early_warning_ips), per_ip)
      IN  IF ip_data.alert_level # "early_warning" THEN rest
          ELSE <<[source_ip |-> ip,
                  alert_level |-> "early_warning",
                  current_confidence |-> ip_data.current_confidence,
                  predicted_confidence |-> ip_data.predicted_confidence,
                  trend_direction |-> ip_data.trend,
                  recommended_action |->
                      IF ip_data.predicted_confidence >= RATE_LIMIT_PRED_THRESHOLD
                         /\ ip_data.trend = "rising"
                        THEN "rate_limit" ELSE "elevated_monitor"]>> \o rest

\* mutant: every listed address gets an action, whatever its level
pre_assess_risk_unfiltered(tick_result) ==
    [preemptive_actions |->
         pre_assess_loop(tick_result.early_warnings,
             [ip \in IPs |-> [tick_result.per_ip[ip] EXCEPT !.alert_level = "early_warning"]]),
     total_early_warnings |-> Len(tick_result.early_warnings)]

pre_assess_risk(tick_result) ==
    [preemptive_actions |->
         pre_assess_loop(tick_result.early_warnings, tick_result.per_ip),
     total_early_warnings |-> Len(tick_result.early_warnings)]

\* tick results a caller may hand in: any list of addresses, any entry per
\* address (an address without an entry reads as NoAlert)
IpLists == {<<>>} \cup {<<a>> : a \in IPs} \cup {<<a, b>> : a \in IPs, b \in IPs}

IpEntries ==
    {NoAlert} \cup
    [present : {TRUE},
     trend : {"rising", "stable", "falling"},
     current_confidence : {3000, 5500},
     predicted_confidence : {RATE_LIMIT_PRED_THRESHOLD - 1, RATE_LIMIT_PRED_THRESHOLD, 6500},
     alert_level : {"normal", "elevated", "early_warning", "confirmed"}]

NoActions == [preemptive_actions |-> <<>>, total_early_warnings |-> 0]

PreAssessInit ==
    /\ InitSystem /\ gate = GateIdle /\ thr = Idle /\ evo = Idle /\ scout = Idle
    /\ \E l \in IpLists, e \in [IPs -> IpEntries] :
         sim = [phase |-> "pre_assess", early_warnings |-> l, per_ip |-> e,
                done |-> FALSE, out |-> NoActions]

PreAssessRisk ==
    /\ sim.phase = "pre_assess" /\ ~sim.done
    /\ sim' = [sim EXCEPT !.done = TRUE, !.out = pre_assess_risk(sim)]
    /\ UNCHANGED <<responder, gate, thr, scout, evo>>

PreAssessSpec == PreAssessInit /\ [][PreAssessRisk]_vars

\* C27: every emitted action is for an address listed in early_warnings
\* whose entry is at level early_warning, recommends rate_limit or
\* elevated_monitor, and recommends rate_limit only with predicted
\* confidence >= 0.50 and a rising trend.
C27_PreAssessIsLowImpact ==
    (sim.phase = "pre_assess" /\ sim.done) =>
        \A i \in 1..Len(sim.out.preemptive_actions) :
            LET a == sim.out.preemptive_actions[i]
                d == sim.per_ip[a.source_ip]
            IN  /\ InList(sim.early_warnings, a.source_ip)
                /\ d.alert_level = "early_warning"
                /\ a.recommended_action \in {"rate_limit", "elevated_monitor"}
                /\ a.recommended_action = "rate_limit" =>
                      /\ d.predicted_confidence >= RATE_LIMIT_PRED_THRESHOLD
                      /\ d.trend = "rising"

\* one listed address is throttled, the other is listed at level confirmed
\* and gets no action
C27_Witness ==
    /\ sim.phase = "pre_assess" /\ sim.done
    /\ Len(sim.early_warnings) = 2
    /\ sim.per_ip[sim.early_warnings[1]].alert_level = "confirmed"
    /\ Len(sim.out.preemptive_actions) = 1
    /\ sim.out.preemptive_actions[1].recommended_action = "rate_limit"
    /\ sim.out.preemptive_actions[1].source_ip = sim.early_warnings[2]

\* ------------------------------------------------------------------------
\* The auto-unblock pass step by step, next to the enforcement path
\* ------------------------------------------------------------------------
\* thr.lines: what fh.readlines() returned; thr.order: the keys of ip_history
\* that the for-loop has not reached yet
StepInit ==
    /\ InitSystem /\ gate = GateIdle /\ scout = Idle /\ evo = Idle /\ sim = Idle
    /\ thr = [phase |-> "sweep", pc |-> "sleeping", lines |-> <<>>, order |-> <<>>]

\* the sleep has returned: the existence check, readlines() and the loop
\* that builds ip_history
SweepRead ==
    /\ thr.phase = "sweep" /\ thr.pc = "sleeping"
    /\ sweeper = "sleeping"
    /\ now >= wake
    /\ LET order == IF logExists THEN ip_order(log, {}) ELSE <<>>
       IN  /\ thr' = IF order = <<>> THEN thr
                     ELSE [thr EXCEPT !.pc = "processing", !.lines = log,
                                      !.order = order]
           /\ wake' = IF order = <<>> THEN now + AUTO_UNBLOCK_SECONDS ELSE wake
    /\ resp' = NoResp
    /\ cmds' = <<>>
    /\ reports' = <<>>
    /\ last' = Last("sweep_read", FALSE, "none")
    /\ UNCHANGED <<now, log, logExists, logMode, faults, blocked, sweeper, gate,
                   scout, evo, sim>>

\* one round of `for ip, entries in ip_history.items()`; after the last
\* address the thread sleeps again
SweepStep ==
    /\ thr.phase = "sweep" /\ thr.pc = "processing"
    /\ \E ok \in BOOLEAN :
         \E r \in {sweep_ip([st |-> Files, reports |-> <<>>], thr.lines,
                            Head(thr.order), ok)} :
             /\ log' = r.st.log
             /\ logExists' = r.st.logExists
             /\ blocked' = r.st.blocked
             /\ cmds' = r.st.cmds
             /\ reports' = r.reports
    /\ thr' = IF Len(thr.order) = 1
                THEN [thr EXCEPT !.pc = "sleeping", !.lines = <<>>, !.order = <<>>]
                ELSE [thr EXCEPT !.order = Tail(@)]
    /\ wake' = IF Len(thr.order) = 1 THEN now + AUTO_UNBLOCK_SECONDS ELSE wake
    /\ resp' = NoResp
    /\ last' = Last("sweep_step", FALSE, Head(thr.order))
    /\ UNCHANGED <<now, logMode, faults, sweeper, gate, scout, evo, sim>>

\* the clock advances between passes (a pass takes less than a clock step)
TickBetweenPasses == thr.pc = "sleeping" /\ Tick

StepNext == Verdict \/ SweepRead \/ SweepStep \/ TickBetweenPasses

StepSpec == StepInit /\ [][StepNext]_vars

\* C28: a round of the sweep never reverts an enforcement younger than its
\* TTL: when the latest record of an address is such an enforcement, the
\* round issues no reversal command for the address and leaves that record
\* the latest one.
C28_YoungEnforcementNotReverted ==
    [][last'.op = "sweep_step" =>
          \A ip \in IPs :
              (/\ HasRecord(log, ip)
               /\ Latest(log, ip).action \in ExpirableActions
               /\ now - Latest(log, ip).ts < TtlOf(Latest(log, ip).action))
              => /\ ReversalsFor(cmds', ip) = <<>>
                 /\ Latest(log', ip) = Latest(log, ip)
    ]_vars

\* ------------------------------------------------------------------------
\* The anticipatory pipeline: rolling_tick -> on_early_warning ->
\* pre_assess_risk -> POST /preemptive_action
\* ------------------------------------------------------------------------
\* top_confidence values around the confirmed threshold
PipelineConfs == [IPs -> {30, 55, CONFIDENCE_THRESHOLD - 1, CONFIDENCE_THRESHOLD, 70}]

\* sim.pending: the actions of pre_assess_risk not posted yet
PipelineInit ==
    /\ InitSystem /\ gate = GateIdle /\ thr = Idle /\ evo = Idle
    /\ scout = ScoutStart(MaxScoutTicks, 2 * ROLLING_TICK_SECONDS)
    /\ sim = [phase |-> "pipeline", pending |-> <<>>]

\* _on_early_warning(ips, per_ip) up to the loop over the actions: the
\* synthetic tick holds the entries of the early-warning addresses only
EarlyWarningCallback ==
    /\ scout.phase = "loop" /\ scout.pc = "on_early_warning"
    /\ sim.phase = "pipeline"
    /\ LET ips == SelectSeq(<<"10.0.0.1", "10.0.0.2">>,
                            LAMBDA a : a \in scout.result.early_warnings)
           synthetic_tick ==
               [early_warnings |-> ips,
                per_ip |-> [ip \in IPs |-> IF InList(ips, ip)
                                             THEN scout.result.per_ip[ip]
                                             ELSE NoAlert]]
           pre == pre_assess_risk(synthetic_tick)
       IN  /\ sim' = [sim EXCEPT !.pending = pre.preemptive_actions]
           /\ scout' = [scout EXCEPT !.iter.on_early_warning = TRUE,
                          !.pc = IF pre.preemptive_actions = <<>>
                                   THEN "advance" ELSE "posting"]
    /\ UNCHANGED <<responder, gate, thr, evo>>

\* one round of `for action in pre["preemptive_actions"]`: the POST and the
\* responder's handling of it.  The gates are whole hundredths, so a
\* confidence in 1/10000 compares with them as its whole hundredths do.
PostPreemptive ==
    /\ scout.phase = "loop" /\ scout.pc = "posting"
    /\ \E ok \in BOOLEAN :
         LET a    == Head(sim.pending)
             data == PreemptiveBody(PreemptiveRequired, a.source_ip, a.alert_level,
                                    a.current_confidence \div 100,
                                    a.predicted_confidence \div 100,
                                    a.recommended_action)
             r    == preemptive_action_endpoint(data, ok)
         IN  /\ log' = r.st.log
             /\ logExists' = r.st.logExists
             /\ blocked' = r.st.blocked
             /\ cmds' = r.st.cmds
             /\ reports' = r.reports
             /\ resp' = r.resp
             /\ last' = Last("pipeline_post", TRUE, a.recommended_action)
    /\ sim' = [sim EXCEPT !.pending = Tail(@)]
    /\ scout' = [scout EXCEPT !.pc = IF Len(sim.pending) = 1 THEN "advance"
                                      ELSE "posting"]
    /\ UNCHANGED <<now, logMode, faults, sweeper, wake, gate, thr, evo>>

PipelineNext ==
    \/ CaptureOn(HistoryBatches(scout.clock))
    \/ RollingTickOn(PipelineConfs)
    \/ OnTick
    \/ EarlyWarningCallback
    \/ PostPreemptive
    \/ AdvanceOn({ROLLING_TICK_SECONDS})

PipelineSpec == PipelineInit /\ [][PipelineNext]_vars

\* C29: with the default thresholds every candidate the pipeline posts has
\* current confidence below 0.60, predicted confidence at least 0.40 and a
\* whitelisted action, and the responder's safety gate approves it.
C29_PipelineCandidateApproved ==
    [][(scout.pc = "posting" /\ sim'.pending # sim.pending) =>
          LET a == Head(sim.pending)
          IN  /\ a.alert_level = "early_warning"
              /\ a.current_confidence < 100 * CONFIRMED_CONFIDENCE_GATE
              /\ a.predicted_confidence >= 100 * PREEMPTIVE_CONFIDENCE_GATE
              /\ a.recommended_action \in PREEMPTIVE_SAFE_ACTIONS
              /\ resp'.status = "ok"
              /\ resp'.action = a.recommended_action
    ]_vars

\* a candidate one hundredth below the confirmed threshold was throttled
C29_Witness ==
    /\ sim.phase = "pipeline"
    /\ last.op = "pipeline_post" /\ last.rec = "rate_limit"
    /\ resp.status = "ok"
    /\ \E ip \in IPs :
         /\ scout.result.per_ip[ip].alert_level = "early_warning"
         /\ scout.result.per_ip[ip].current_confidence = 100 * (CONFIDENCE_THRESHOLD - 1)
         /\ Latest(log, ip).action = "rate_limit"


\* C30: every reversal is logged, with the success flag of its command, as
\* the latest action of its address, directly after the enforcement record
\* it reverts among the records of that address; and a sweep that finds a
\* reversal, failed or not, as the latest action of an address issues no
\* command for the address and logs nothing for it.  So an expired
\* enforcement record gets at most one reversal attempt.
C30_OneReversalAttempt ==
    [][/\ \A ip \in IPs :
            LET recs == RecordsFor(log', ip)
            IN  \A i \in 1..Len(recs) :
                    recs[i].action \in ReversalCmds =>
                        /\ i > 1
                        /\ recs[i - 1].action \in ExpirableActions
                        /\ recs[i].action = InverseOf(recs[i - 1].action)
       /\ last'.op = "sweep" =>
            \A ip \in IPs :
                /\ Len(ReversalsFor(cmds', ip)) <= 1
                /\ Len(ReversalsFor(cmds', ip)) = 1 =>
                      /\ Len(RecordsFor(NewLines(log, log'), ip)) = 1
                      /\ Latest(log', ip).action = ReversalsFor(cmds', ip)[1].cmd
                      /\ Latest(log', ip).ok = ReversalsFor(cmds', ip)[1].ok
                /\ (HasRecord(log, ip) /\ Latest(log, ip).action \in ReversalCmds) =>
                      /\ CmdsFor(cmds', ip) = <<>>
                      /\ RecordsFor(NewLines(log, log'), ip) = <<>>
    ]_vars

\* a reversal failed, and a later sweep ran without trying it again
C30_Witness ==
    /\ last.op = "sweep"
    /\ \E ip \in IPs :
         /\ HasRecord(log, ip)
         /\ Latest(log, ip).action \in ReversalCmds
         /\ ~Latest(log, ip).ok
         /\ now >= Latest(log, ip).ts + AUTO_UNBLOCK_SECONDS
         /\ CmdsFor(cmds, ip) = <<>>

====
